---- MODULE Spec2Model ----
(***************************************************************************)
(* Verification model of the strapi-frontend repository: the cookie based  *)
(* session proxy (login / me / logout routes and AuthProvider), the /write *)
(* page guard, the example middleware and requireAuth helper, the          *)
(* VoteButtons and Comments components with the CMS vote store, the post   *)
(* list / getPostBySlug routing, createPost's string-to-blocks conversion, *)
(* the /write submit flow with its cover upload, the comment form, the     *)
(* rich-text to Markdown conversion, and the BlocksRenderer with the post  *)
(* page's content dispatch.                                                *)
(***************************************************************************)
EXTENDS Integers, Sequences, FiniteSets, TLC

VARIABLES
  \* ---- session proxy (browser cookie jar, CMS token table, AuthContext)
  cookie,        \* value of the auth-token cookie, "" when absent or cleared
  cmsValid,      \* the JWTs the CMS currently accepts
  user,          \* AuthContext.user
  token,         \* AuthContext.token, "" for null / undefined
  loading,       \* AuthContext.loading
  lastOp,        \* the last operation performed and what it answered
  sinceLogout,   \* a logout succeeded and no login / register succeeded since
  loginTok,      \* the token returned by the last successful login, "" if none
  ui,            \* what the login / register page did with its last submit
  \* ---- VoteButtons / Comments
  cmsVotes,      \* the vote records the CMS stores for the blog
  nextVoteId,    \* the id the CMS gives to the next vote it creates
  mounted,       \* VoteButtons is mounted
  score,         \* VoteButtons.score
  userVote,      \* VoteButtons.userVote
  total0,        \* the total fetched by the last run of the mount effect
  vote0,         \* the value of the user vote fetched by that run, 0 if none
  fetchReq,      \* the last list request (votes or comments) sent to the CMS
  cmsShape,      \* how the CMS serializes an entry: "flat" or "attributes"
  fetched,       \* what the last run of the mount effect got from the CMS
  clicked,       \* the last vote click: what it sent and what it found
  \* ---- post list and single post page
  cmsPosts,      \* the blog records the CMS stores
  listed,        \* the posts the blog list holds (getAllPosts, normalized)
  opened,        \* the outcome of opening a listed post's link
  \* ---- createPost
  draft,         \* the content typed into the /write editor
  payload,       \* the content field of the last createPost request
  \* ---- /write submit flow
  title,         \* WritePost.title
  coverImage,    \* WritePost.coverImage: a file is selected
  isLoading,     \* WritePost.isLoading
  writeError,    \* WritePost.error, "" for null
  submitPc,      \* the await handleSubmit stands at, "idle" when it is not running
  held,          \* handleSubmit's closure and locals in its current or last run
  requests,      \* the CMS requests sent by that run, in order
  pushed,        \* the route that run gave to router.push, Null if none
  \* ---- rich text conversion
  postContent,   \* a post's content field as the CMS sent it
  markdown,      \* what convertStrapiContentToMarkdown returned for it
  rendered,      \* what the post page rendered for the post's content
  \* ---- Comments
  cmsComments,   \* the comment records the CMS stores, newest first
  commentText,   \* Comments.content, the text typed into the textarea
  submitting,    \* Comments.submitting
  comments,      \* Comments.comments
  fetchError,    \* Comments.fetchError, "" for null
  effectDue,     \* the fetchComments effect is scheduled and has not run yet
  commentPc,     \* the await handleSubmit stands at, "idle" when it is not running
  crun,          \* the closure and the outcome of the current or last handleSubmit
  commentLog     \* the CMS requests sent by that run, in order

authVars == <<cookie, cmsValid, user, token, loading, lastOp, sinceLogout, loginTok, ui>>
voteVars == <<cmsVotes, nextVoteId, mounted, score, userVote, total0, vote0, fetchReq,
              cmsShape, fetched, clicked>>
postVars == <<cmsPosts, listed, opened>>
writeVars == <<draft, payload>>
submitVars == <<title, coverImage, isLoading, writeError, submitPc, held, requests, pushed>>
convVars == <<postContent, markdown>>
renderVars == <<rendered>>
commentVars == <<cmsComments, commentText, submitting, comments, fetchError, effectDue,
                 commentPc, crun, commentLog>>
vars == <<cookie, cmsValid, user, token, loading, lastOp, sinceLogout, loginTok, ui,
          cmsVotes, nextVoteId, mounted, score, userVote, total0, vote0, fetchReq,
          cmsShape, fetched, clicked,
          cmsPosts, listed, opened, draft, payload,
          title, coverImage, isLoading, writeError, submitPc, held, requests, pushed,
          postContent, markdown,
          cmsComments, commentText, submitting, comments, fetchError, effectDue,
          commentPc, crun, commentLog,
          rendered>>

(***************************************************************************)
(* Values                                                                  *)
(***************************************************************************)

\* The JWTs the CMS can issue (both belong to the one account of the model).
Tokens == {"jwt1", "jwt2"}

NoRole == [shape |-> "absent", name |-> "", type |-> ""]
FlatRole(n, t) == [shape |-> "flat", name |-> n, type |-> t]
NestedRole(n, t) == [shape |-> "nested", name |-> n, type |-> t]

\* The role values /api/users/me?populate=role can carry: flat { name, type },
\* the v5 wrapper { data: { attributes: { name, type } } }, or no role.
RawRoles ==
  { FlatRole("Editor", "editor"), FlatRole("Admin", "admin"),
    FlatRole("Authenticated", "authenticated"), FlatRole("Writer", "wditor"),
    FlatRole("EDITOR", "custom"), NestedRole("Editor", "editor"), NoRole }

NoUser == [kind |-> "none", id |-> 0, role |-> NoRole]
CmsUser(r) == [kind |-> "user", id |-> 1, role |-> r]
\* The JSON body of a non-OK CMS answer, taken for a user object.
ErrBodyUser == [kind |-> "errbody", id |-> 0, role |-> NoRole]

\* String.prototype.toLowerCase on the role strings of the model.
toLowerCase(s) ==
  CASE s = "Editor" -> "editor"
    [] s = "EDITOR" -> "editor"
    [] s = "Admin" -> "admin"
    [] s = "Authenticated" -> "authenticated"
    [] s = "Writer" -> "writer"
    [] OTHER -> s

(***************************************************************************)
(* The CMS as seen by the routes                                           *)
(***************************************************************************)

\* Answers of POST /api/auth/local: the request or the body parse throws,
\* the CMS rejects the credentials, or it accepts and issues a JWT.
AuthOutcomes ==
  { [t |-> "throw", status |-> 0, msg |-> FALSE, jwt |-> ""] }
  \cup { [t |-> "reject", status |-> s, msg |-> m, jwt |-> ""] :
           s \in {400, 401}, m \in BOOLEAN }
  \cup { [t |-> "ok", status |-> 200, msg |-> FALSE, jwt |-> j] : j \in Tokens }

\* Answers of GET /api/users/me for a bearer token.
MeOutcomes(tok, valid) ==
  { [t |-> "throw", status |-> 0, user |-> NoUser] }
  \cup (IF tok \in valid
          THEN { [t |-> "ok", status |-> 200, user |-> CmsUser(r)] : r \in RawRoles }
               \cup { [t |-> "reject", status |-> s, user |-> ErrBodyUser] : s \in {403, 500} }
          ELSE { [t |-> "reject", status |-> 401, user |-> ErrBodyUser] })

\* Answers of POST /api/auth/local/register.
RegisterOutcomes ==
  { [t |-> "throw", status |-> 0, msg |-> FALSE], [t |-> "ok", status |-> 200, msg |-> FALSE] }
  \cup { [t |-> "reject", status |-> 400, msg |-> m] : m \in BOOLEAN }

(***************************************************************************)
(* Route handlers (pure: request and CMS answers in, response out)         *)
(***************************************************************************)

Response(st, e, u, tk, sc, cv) ==
  [status |-> st, err |-> e, user |-> u, token |-> tk, setCookie |-> sc, cookieVal |-> cv]

InternalError == Response(500, TRUE, NoUser, "", FALSE, "")

LoginRouteLeaky(auth, me) ==
  IF auth.t = "throw" THEN InternalError
  ELSE IF me.t = "throw" THEN InternalError
  ELSE Response(IF auth.t = "ok" THEN 200 ELSE auth.status, auth.t # "ok",
                IF me.t = "ok" THEN me.user ELSE ErrBodyUser, auth.jwt, TRUE, auth.jwt)

\* app/api/auth/login/route.ts POST
LoginRoute(auth, me) ==
  IF auth.t = "throw" THEN InternalError
  ELSE IF auth.t = "reject"
    THEN Response(auth.status, TRUE, NoUser, "", FALSE, "")
  ELSE IF me.t = "throw" THEN InternalError
  ELSE Response(200, FALSE, IF me.t = "ok" THEN me.user ELSE ErrBodyUser,
                auth.jwt, TRUE, auth.jwt)

\* the second login route (POST with the role fallback)
LoginRouteFallback(auth, me) ==
  IF auth.t = "throw" THEN InternalError
  ELSE IF auth.t = "reject"
    THEN Response(auth.status, TRUE, NoUser, "", FALSE, "")
  ELSE Response(200, FALSE,
                IF me.t = "ok" THEN me.user
                ELSE CmsUser(FlatRole("Authenticated", "authenticated")),
                auth.jwt, TRUE, auth.jwt)

\* role normalisation of the me route: always flat { name, type }
NormalizeRole(r) ==
  IF r.shape = "absent" THEN FlatRole("Authenticated", "authenticated")
  ELSE FlatRole(r.name, r.type)

MeRouteOtherToken(ck, me) ==
  IF ck = "" THEN Response(401, TRUE, NoUser, "", FALSE, "")
  ELSE IF me.t = "throw" THEN InternalError
  ELSE IF me.t = "reject"
    THEN Response(IF me.status = 403 THEN 403 ELSE 401, TRUE, NoUser, "", FALSE, "")
  ELSE Response(200, FALSE, [me.user EXCEPT !.role = NormalizeRole(@)], "", FALSE, "")

\* app/api/auth/me/route.ts GET
MeRoute(ck, me) ==
  IF ck = "" THEN Response(401, TRUE, NoUser, "", FALSE, "")
  ELSE IF me.t = "throw" THEN InternalError
  ELSE IF me.t = "reject"
    THEN Response(IF me.status = 403 THEN 403 ELSE 401, TRUE, NoUser, "", FALSE, "")
  ELSE Response(200, FALSE, [me.user EXCEPT !.role = NormalizeRole(@)], ck, FALSE, "")

\* the second me route (GET without 403 mapping or role normalisation)
MeRouteSimple(ck, me) ==
  IF ck = "" THEN Response(401, TRUE, NoUser, "", FALSE, "")
  ELSE IF me.t = "throw" THEN InternalError
  ELSE IF me.t = "reject" THEN Response(401, TRUE, NoUser, "", FALSE, "")
  ELSE Response(200, FALSE, me.user, ck, FALSE, "")

LogoutRouteKeepsCookie == Response(200, FALSE, NoUser, "", FALSE, "")

\* app/api/auth/logout/route.ts POST: sets auth-token to "" with maxAge 0
LogoutRoute == Response(200, FALSE, NoUser, "", TRUE, "")

\* app/api/auth/register/route.ts POST as documented: no cookie, no token
RegisterRoute(reg) ==
  IF reg.t = "throw" THEN InternalError
  ELSE IF reg.t = "reject" THEN Response(reg.status, TRUE, NoUser, "", FALSE, "")
  ELSE Response(200, FALSE, CmsUser(NoRole), "", FALSE, "")

OkAlways(res) == TRUE

\* Response.ok
Ok(res) == res.status >= 200 /\ res.status <= 299

\* the browser applies Set-Cookie
CookieAfter(ck, res) == IF res.setCookie THEN res.cookieVal ELSE ck


(***************************************************************************)
(* The /write page guard                                                   *)
(***************************************************************************)

\* user?.role?.name and user?.role?.type as the page reads them ("" for
\* undefined: a wrapped or missing role has no name or type property)
roleName(u) == toLowerCase(IF u.role.shape = "flat" THEN u.role.name ELSE "")
roleType(u) == toLowerCase(IF u.role.shape = "flat" THEN u.role.type ELSE "")

isEditorAnyRole(u) == u.kind # "none"

\* app/write/page.tsx WritePost.isEditor
isEditor(u) ==
  \/ roleName(u) = "editor"
  \/ roleName(u) = "admin"
  \/ roleType(u) = "editor"
  \/ roleType(u) = "admin"
  \/ roleType(u) = "wditor"

\* what WritePost renders: nothing, the Access Denied notice, or the form
WriteRender(ld, u) ==
  IF ld THEN "null"
  ELSE IF u.kind = "none" THEN "null"
  ELSE IF ~isEditor(u) THEN "denied"
  ELSE "form"

(***************************************************************************)
(* Example middleware and lib/auth helpers                                 *)
(***************************************************************************)

\* Paths are sequences of characters; a capital letter abbreviates a word:
\* D = dashboard, A = admin, C = create-post, B = blogs, L = login.
Paths ==
  { <<"/">>, <<"/", "D">>, <<"/", "D", "/", "x">>, <<"/", "A">>,
    <<"/", "A", "/", "x">>, <<"/", "C">>, <<"/", "C", "/", "x">>,
    <<"/", "B", "/", "x">>, <<"/", "L">>, <<"/", "D", "x">> }

LoginPath == <<"/", "L">>
NoPath == <<>>

\* String.prototype.startsWith
startsWith(p, r) == Len(p) >= Len(r) /\ SubSeq(p, 1, Len(r)) = r

protectedRoutes == { <<"/", "D">>, <<"/", "A">>, <<"/", "C">> }

\* config.matcher: "/dashboard/:path*" matches the route and its sub-paths
matcher(p) == \E r \in protectedRoutes : p = r \/ startsWith(p, r \o <<"/">>)

NavNext == [kind |-> "next", to |-> NoPath, redirect |-> NoPath]
NavRedirect(to, from) == [kind |-> "redirect", to |-> to, redirect |-> from]
NavRender == [kind |-> "render", to |-> NoPath, redirect |-> NoPath]

middlewareNoParam(p, ck) ==
  IF (\E r \in protectedRoutes : startsWith(p, r)) /\ ck = ""
    THEN NavRedirect(LoginPath, NoPath)
    ELSE NavNext

\* EXAMPLES/middleware-example.ts middleware
middleware(p, ck) ==
  IF (\E r \in protectedRoutes : startsWith(p, r)) /\ ck = ""
    THEN NavRedirect(LoginPath, p)
    ELSE NavNext

getServerSessionUnchecked(ck, me) == ck # "" /\ me.t # "throw"

\* lib/auth.ts getServerSession: TRUE when a session { user, token } is returned
getServerSession(ck, me) ==
  IF ck = "" THEN FALSE
  ELSE IF me.t = "throw" THEN FALSE
  ELSE IF me.t # "ok" THEN FALSE
  ELSE TRUE

\* lib/auth.ts requireAuth followed by the page body
requireAuth(ck, me) ==
  IF ~getServerSession(ck, me) THEN NavRedirect(LoginPath, NoPath) ELSE NavRender

\* a request for a page: the middleware where the matcher selects it, then
\* the page, which calls requireAuth when it lies under a protected route
Serve(p, ck, me) ==
  LET mw == IF matcher(p) THEN middleware(p, ck) ELSE NavNext
  IN IF mw.kind = "redirect" THEN mw
     ELSE IF matcher(p) THEN requireAuth(ck, me)
     ELSE NavRender


(***************************************************************************)
(* Session proxy: actions                                                  *)
(***************************************************************************)

NoAuth == [t |-> "none", status |-> 0, msg |-> FALSE, jwt |-> ""]
NoMe == [t |-> "none", status |-> 0, user |-> NoUser]
NoRes == Response(0, FALSE, NoUser, "", FALSE, "")

\* the record kept of an operation: its kind, the route variant or path, the
\* cookie the request carried, the CMS answers, the response, the navigation
Op(k, v, p, ck, a, m, r, n) ==
  [kind |-> k, variant |-> v, path |-> p, cookieBefore |-> ck,
   auth |-> a, me |-> m, res |-> r, nav |-> n]

NoOp == Op("init", "", NoPath, "", NoAuth, NoMe, NoRes, NavNext)

\* data.error.message of a CMS rejection that carries one
CmsMessage == "Invalid identifier or password"

\* the error property of a route's JSON answer, "" when it has none: the
\* CMS message or the route's fallback for a rejection, "Internal server
\* error" from the route's catch block
errorBody(res, cmsMsg, fallback) ==
  IF ~res.err THEN ""
  ELSE IF res.status = 500 THEN "Internal server error"
  ELSE IF cmsMsg THEN CmsMessage
  ELSE fallback

\* a || b on strings
OrElse(a, b) == IF a # "" THEN a ELSE b

\* AuthProvider.login / register: the message of the Error thrown, "" when
\* the call returns; a fetch that finds no server rejects with a TypeError
thrownMessage(net, res, body, fallback) ==
  IF ~net THEN "Failed to fetch"
  ELSE IF ~Ok(res) THEN OrElse(body, fallback)
  ELSE ""

\* LoginPage / RegisterPage handleSubmit around the call: the toast shown,
\* the page's loading flag when the handler ends, and whether it called
\* router.push("/")
SubmitUi(form, message, fallback, welcome) ==
  [form |-> form, message |-> message,
   toast |-> IF message = "" THEN welcome ELSE OrElse(message, fallback),
   loading |-> FALSE, pushed |-> message = ""]

NoUi == [form |-> "none", message |-> "", toast |-> "", loading |-> FALSE, pushed |-> FALSE]

AuthInit ==
  /\ ui = NoUi
  /\ cookie = ""
  /\ cmsValid = {}
  /\ user = NoUser
  /\ token = ""
  /\ loading = TRUE
  /\ lastOp = NoOp
  /\ sinceLogout = FALSE
  /\ loginTok = ""

\* a page load or reload: a fresh AuthProvider with its initial state
PageLoad ==
  /\ user' = NoUser
  /\ token' = ""
  /\ loading' = TRUE
  /\ lastOp' = Op("load", "", NoPath, cookie, NoAuth, NoMe, NoRes, NavNext)
  /\ ui' = NoUi
  /\ UNCHANGED <<cookie, cmsValid, sinceLogout, loginTok>>

\* AuthProvider restoreSession (the mount effect), against either me route
RestoreSession(variant, me, net) ==
  /\ loading
  /\ LET res == IF ~net THEN NoRes
                ELSE IF variant = "me" THEN MeRoute(cookie, me)
                ELSE MeRouteSimple(cookie, me)
     IN /\ cookie' = CookieAfter(cookie, res)
        /\ user' = IF net /\ Ok(res) THEN res.user ELSE user
        /\ token' = IF net /\ Ok(res) THEN res.token ELSE token
        /\ lastOp' = Op("restore", variant, NoPath, cookie, NoAuth,
                        IF net /\ cookie # "" THEN me ELSE NoMe, res, NavNext)
  /\ loading' = FALSE
  /\ ui' = NoUi
  /\ UNCHANGED <<cmsValid, sinceLogout, loginTok>>

\* AuthProvider.login, against either login route
Login(variant, auth, me, net) ==
  LET called == net /\ auth.t = "ok"
      res == IF ~net THEN NoRes
             ELSE IF variant = "login" THEN LoginRoute(auth, me)
             ELSE LoginRouteFallback(auth, me)
  IN /\ cookie' = CookieAfter(cookie, res)
     /\ cmsValid' = IF called THEN cmsValid \cup {auth.jwt} ELSE cmsValid
     /\ user' = IF net /\ Ok(res) THEN res.user ELSE user
     /\ token' = IF net /\ Ok(res) THEN res.token ELSE token
     /\ sinceLogout' = IF net /\ Ok(res) THEN FALSE ELSE sinceLogout
     /\ loginTok' = IF net /\ Ok(res) THEN res.token ELSE loginTok
     /\ lastOp' = Op("login", variant, NoPath, cookie, IF net THEN auth ELSE NoAuth,
                     IF called THEN me ELSE NoMe, res, NavNext)
     /\ ui' = SubmitUi("login",
                       thrownMessage(net, res, errorBody(res, auth.msg, "Login failed"),
                                     "Login failed"),
                       "Login failed", "Logged in successfully")
     /\ UNCHANGED loading

\* AuthProvider.register
Register(reg, net) ==
  LET res == IF ~net THEN NoRes ELSE RegisterRoute(reg)
  IN /\ cookie' = CookieAfter(cookie, res)
     /\ user' = IF net /\ Ok(res) THEN res.user ELSE user
     /\ token' = IF net /\ Ok(res) THEN res.token ELSE token
     /\ sinceLogout' = IF net /\ Ok(res) THEN FALSE ELSE sinceLogout
     /\ lastOp' = Op("register", "", NoPath, cookie, NoAuth, NoMe, res, NavNext)
     /\ ui' = SubmitUi("register",
                       thrownMessage(net, res, errorBody(res, reg.msg, "Registration failed"),
                                     "Registration failed"),
                       "Registration failed", "Account created successfully")
     /\ UNCHANGED <<cmsValid, loading, loginTok>>

\* AuthProvider.logout: the state is cleared only when the fetch resolves
Logout(net) ==
  LET res == IF ~net THEN NoRes ELSE LogoutRoute
  IN /\ cookie' = CookieAfter(cookie, res)
     /\ user' = IF net THEN NoUser ELSE user
     /\ token' = IF net THEN "" ELSE token
     /\ sinceLogout' = IF net THEN TRUE ELSE sinceLogout
     /\ lastOp' = Op("logout", "", NoPath, cookie, NoAuth, NoMe, res, NavNext)
     /\ ui' = NoUi
     /\ UNCHANGED <<cmsValid, loading, loginTok>>

\* the browser drops the cookie when its maxAge has passed
CookieExpire ==
  /\ cookie # ""
  /\ cookie' = ""
  /\ lastOp' = Op("expire", "", NoPath, cookie, NoAuth, NoMe, NoRes, NavNext)
  /\ ui' = NoUi
  /\ UNCHANGED <<cmsValid, user, token, loading, sinceLogout, loginTok>>

\* the CMS stops accepting a JWT (expiry, blocked account)
CmsRevoke(t) ==
  /\ t \in cmsValid
  /\ cmsValid' = cmsValid \ {t}
  /\ lastOp' = Op("revoke", "", NoPath, cookie, NoAuth, NoMe, NoRes, NavNext)
  /\ ui' = NoUi
  /\ UNCHANGED <<cookie, user, token, loading, sinceLogout, loginTok>>

\* a browser request for a page of the examples' protected area
Navigate(p, me) ==
  /\ lastOp' = Op("nav", "", p, cookie, NoAuth,
                  IF matcher(p) /\ cookie # "" THEN me ELSE NoMe,
                  NoRes, Serve(p, cookie, me))
  /\ ui' = NoUi
  /\ UNCHANGED <<cookie, cmsValid, user, token, loading, sinceLogout, loginTok>>

(***************************************************************************)
(* Session proxy: properties                                               *)
(***************************************************************************)

\* the role, by its name or its type and whatever its case, is editor or admin
EditorOrAdminRole(u) ==
  \/ toLowerCase(u.role.name) \in {"editor", "admin"}
  \/ toLowerCase(u.role.type) \in {"editor", "admin"}

\* C3 as stated: the create-post form is rendered only when auth loading has
\* finished, a user is logged in and the user's role is editor or admin.
C3_FormOnlyEditorAdmin ==
  WriteRender(loading, user) = "form" =>
    ~loading /\ user.kind # "none" /\ EditorOrAdminRole(user)

\* C3 amended: the form is rendered only when loading has finished, a user is
\* logged in and the role's name or type is editor or admin (any case) or the
\* role's type is "wditor"; a logged-in user with any other role sees Access
\* Denied; while loading or with no user nothing is rendered.
C3_WriteGuard ==
  LET r == WriteRender(loading, user)
      allowed == EditorOrAdminRole(user) \/ toLowerCase(user.role.type) = "wditor"
  IN /\ r = "form" => ~loading /\ user.kind # "none" /\ allowed
     /\ (~loading /\ user.kind # "none" /\ ~allowed) => r = "denied"
     /\ (loading \/ user.kind = "none") => r = "null"

C3_Witness ==
  /\ WriteRender(loading, user) = "form"
  /\ user.role.type = "editor"
  /\ lastOp.kind = "restore"

\* C5: the JWT never appears in state client-side JavaScript can read: neither
\* in AuthContext.token nor in the body of a response delivered to the browser.
C5_TokenNeverReadable == token = "" /\ lastOp.res.token = ""

\* C6: a session restore that carries the cookie set by the last successful
\* login, and whose token the CMS accepts, leaves AuthContext with a user and
\* with the token that login returned.
C6_RoundTrip ==
  (/\ lastOp.kind = "restore"
   /\ loginTok # ""
   /\ lastOp.cookieBefore = loginTok
   /\ lastOp.me.t = "ok")
  => (user.kind # "none" /\ token = loginTok)

C6_Witness ==
  /\ lastOp.kind = "restore"
  /\ loginTok # ""
  /\ lastOp.cookieBefore = loginTok
  /\ lastOp.me.t = "ok"
  /\ user.kind = "user"
  /\ token = loginTok

\* C7: from a successful logout until the next successful login or register,
\* user and token are null, the cookie is cleared, and every session restore
\* that gets an answer gets 401.
C7_LogoutClears ==
  sinceLogout =>
    /\ user = NoUser
    /\ token = ""
    /\ cookie = ""
    /\ (lastOp.kind = "restore" /\ lastOp.res.status # 0) => lastOp.res.status = 401

C7_Witness ==
  /\ sinceLogout
  /\ lastOp.kind = "restore"
  /\ lastOp.res.status = 401
  /\ loginTok # ""

\* C8: the login route sets the cookie only when the CMS accepted the
\* credentials, and then to the JWT the CMS returned; a rejection is answered
\* with an error body and the CMS's status and no cookie; a thrown error is
\* answered with 500 and no cookie.
C8_LoginCookie ==
  (lastOp.kind = "login" /\ lastOp.res.status # 0) =>
    /\ lastOp.auth.t = "reject" =>
         /\ lastOp.res.status = lastOp.auth.status
         /\ lastOp.res.err
         /\ ~lastOp.res.setCookie
         /\ cookie = lastOp.cookieBefore
    /\ (lastOp.auth.t = "throw" \/ (lastOp.variant = "login" /\ lastOp.me.t = "throw")) =>
         lastOp.res.status = 500
    /\ lastOp.res.status = 500 =>
         /\ lastOp.res.err
         /\ ~lastOp.res.setCookie
         /\ cookie = lastOp.cookieBefore
    /\ lastOp.res.setCookie =>
         /\ lastOp.auth.t = "ok"
         /\ lastOp.res.cookieVal = lastOp.auth.jwt
         /\ cookie = lastOp.auth.jwt
    /\ (lastOp.auth.t = "ok" /\ lastOp.res.status = 200) => cookie = lastOp.auth.jwt

C8_Witness ==
  /\ lastOp.kind = "login"
  /\ lastOp.auth.t = "reject"
  /\ lastOp.res.status = 401
  /\ lastOp.cookieBefore # ""
  /\ cookie = lastOp.cookieBefore

\* a protected route or one of its sub-paths
ProtectedPath(p) ==
  \E w \in {"D", "A", "C"} :
    \/ p = <<"/", w>>
    \/ (Len(p) > 3 /\ p[1] = "/" /\ p[2] = w /\ p[3] = "/")

\* C9: a request for a protected path without the cookie is redirected to
\* /login with redirect=<path>; the protected page renders only when the CMS
\* validated the cookie's token; otherwise the user is redirected to /login.
C9_ProtectedAccess ==
  (lastOp.kind = "nav" /\ ProtectedPath(lastOp.path)) =>
    /\ lastOp.cookieBefore = "" => lastOp.nav = NavRedirect(LoginPath, lastOp.path)
    /\ lastOp.nav.kind = "render" =>
         /\ lastOp.cookieBefore # ""
         /\ lastOp.cookieBefore \in cmsValid
         /\ lastOp.me.t = "ok"
    /\ lastOp.me.t # "ok" => (lastOp.nav.kind = "redirect" /\ lastOp.nav.to = LoginPath)

C9_Witness ==
  /\ lastOp.kind = "nav"
  /\ ProtectedPath(lastOp.path)
  /\ lastOp.cookieBefore # ""
  /\ lastOp.me.t = "reject"
  /\ lastOp.nav = NavRedirect(LoginPath, NoPath)

\* C18: GET /api/auth/me answers 401 without contacting the CMS when there
\* is no auth-token cookie, 403 when the CMS answers 403, 401 for any other
\* non-OK CMS answer, 500 when the CMS request throws, and 200 with the
\* user and the cookie's value as token only for an OK CMS answer.
C18_MeStatuses ==
  (lastOp.kind = "restore" /\ lastOp.res # NoRes) =>
    LET ck == lastOp.cookieBefore
        me == lastOp.me
        res == lastOp.res
    IN /\ ck = "" => (res.status = 401 /\ me = NoMe)
       /\ (ck # "" /\ me.t = "reject" /\ me.status = 403) => res.status = 403
       /\ (ck # "" /\ me.t = "reject" /\ me.status # 403) => res.status = 401
       /\ (ck # "" /\ me.t = "throw") => res.status = 500
       /\ res.status = 200 <=> (ck # "" /\ me.t = "ok")
       /\ res.status = 200 => (res.token = ck /\ res.user.kind = "user")

\* C19: when the login or register route answers non-OK, AuthProvider
\* throws an Error with the route's error message (the CMS message, the
\* route's "Login failed" / "Registration failed", or "Internal server
\* error"), user and token keep the values they had, and the page ends with
\* loading false, the message as toast, and no navigation.
C19_FailedSubmitKeepsSession ==
  [][ ( /\ lastOp'.kind \in {"login", "register"}
        /\ lastOp'.res # NoRes
        /\ ~(lastOp'.res.status >= 200 /\ lastOp'.res.status <= 299) ) =>
      ( /\ user' = user
        /\ token' = token
        /\ ui'.form = lastOp'.kind
        /\ IF lastOp'.res.status = 500 THEN ui'.message = "Internal server error"
           ELSE IF lastOp'.kind = "login"
             THEN ui'.message = (IF lastOp'.auth.msg THEN CmsMessage ELSE "Login failed")
           ELSE ui'.message \in {CmsMessage, "Registration failed"}
        /\ ui'.toast = ui'.message
        /\ ~ui'.loading
        /\ ~ui'.pushed ) ]_vars

\* a login refused by the CMS while a session is held
C19_Witness ==
  /\ lastOp.kind = "login"
  /\ lastOp.res.status = 401
  /\ user.kind = "user"
  /\ token # ""
  /\ ui.message = CmsMessage
  /\ ~ui.pushed


(***************************************************************************)
(* Votes: the CMS vote store and the lib/api.ts wrappers                   *)
(***************************************************************************)

\* the largest id the CMS hands out to a vote in the model
MaxVoteId == 2

\* a property that is absent (undefined or null)
Absent == 99

\* userVote === null
NoVote == [id |-> 0, value |-> 0]

\* a stored vote: its id, the related user's id (0: no relation), the value
VoteRec(i, o, v) == [id |-> i, owner |-> o, value |-> v]

\* the stores the model starts from (values other than 1 / -1 are possible
\* for records not created through this app)
InitVoteStores ==
  { {},
    {VoteRec(1, 1, 1)},
    {VoteRec(1, 2, -1)},
    {VoteRec(1, 2, 0)},
    {VoteRec(1, 2, Absent)},
    {VoteRec(1, 1, -1), VoteRec(2, 2, 1)} }

\* An entry as the CMS serializes it: flat { id, value } or wrapped
\* { id, attributes: { value } }.
Raw(i, v, wrapped, av) ==
  [id |-> i, value |-> v, hasAttributes |-> wrapped, attributes |-> [id |-> Absent, value |-> av]]
wire(r, shape) ==
  IF shape = "flat" THEN Raw(r.id, r.value, FALSE, Absent)
  ELSE Raw(r.id, Absent, TRUE, r.value)

\* a ?? b
Coalesce(a, b) == IF a # Absent THEN a ELSE b

normalizeVoteKeepsValue(raw) ==
  LET attrs == IF raw.hasAttributes THEN raw.attributes ELSE [id |-> raw.id, value |-> raw.value]
  IN [id |-> Coalesce(raw.id, attrs.id), value |-> Coalesce(attrs.value, raw.value)]

\* lib/api.ts normalizeVote
normalizeVote(raw) ==
  LET attrs == IF raw.hasAttributes THEN raw.attributes ELSE [id |-> raw.id, value |-> raw.value]
      id == Coalesce(raw.id, attrs.id)
      value == Coalesce(attrs.value, raw.value)
  IN [id |-> id, value |-> IF value = -1 THEN -1 ELSE 1]

RECURSIVE SumValues(_)
\* votes.reduce((sum, v) => sum + v.value, 0)
SumValues(vs) ==
  IF vs = {} THEN 0
  ELSE LET v == CHOOSE x \in vs : TRUE IN v.value + SumValues(vs \ {v})

\* lib/api.ts getVotesByBlog: the normalized list, [] when the request fails
getVotesByBlog(store, ok) ==
  IF ok THEN { normalizeVote(wire(r, cmsShape)) : r \in store } ELSE {}

\* lib/api.ts getUserVote: the first vote related to the user, null when
\* there is none or the request fails
getUserVote(store, userId, ok) ==
  LET mine == { r \in store : r.owner = userId }
  IN IF ~ok \/ mine = {} THEN NoVote
     ELSE normalizeVote(wire(CHOOSE r \in mine : \A q \in mine : r.id <= q.id, cmsShape))

\* lib/api.ts castVote: POST api/votes with { data: { blog, value } }; the
\* CMS stores the fields of the payload, which names no user
castVote(store, id, value) == store \cup {VoteRec(id, 0, value)}

\* lib/api.ts updateVote: PUT api/votes/:id with { data: { value } }
updateVote(store, id, value) ==
  { IF r.id = id THEN [r EXCEPT !.value = value] ELSE r : r \in store }

\* lib/api.ts deleteVote: DELETE api/votes/:id
deleteVote(store, id) == { r \in store : r.id # id }

(***************************************************************************)
(* VoteButtons and the list requests of Comments                           *)
(***************************************************************************)

ListReq(k, a, c) == [kind |-> k, auth |-> a, ctx |-> c]

\* fetchVotes: getVotesByBlog(blogId) is called without a token
fetchVotesReq(tk) == ListReq("votes", "", tk)

\* Comments.fetchComments: getCommentsByBlog(blogId, token ?? undefined)
fetchCommentsReq(tk) == ListReq("comments", tk, tk)

scoreAfterChangeAdds(prev, old, value) == prev + value

\* setScore((prev) => prev - value)
scoreAfterRemove(prev, value) == prev - value
\* setScore((prev) => prev - userVote.value + value)
scoreAfterChange(prev, old, value) == prev - old + value
\* setScore((prev) => prev + value)
scoreAfterNew(prev, value) == prev + value

\* no mount effect has run / no vote button was clicked since
NoFetch == [ran |-> FALSE, okV |-> FALSE, asked |-> FALSE, okU |-> FALSE,
            votes |-> {}, vote |-> NoVote]
NoClick == [kind |-> "none", value |-> 0, logged |-> FALSE, req |-> "none",
            done |-> FALSE, returned |-> NoVote, scoreBefore |-> 0,
            voteBefore |-> NoVote, toast |-> ""]

VoteIdle ==
  /\ mounted = ""
  /\ score = 0
  /\ userVote = NoVote
  /\ total0 = 0
  /\ vote0 = 0
  /\ fetchReq = {}
  /\ fetched = NoFetch
  /\ clicked = NoClick

\* the effect of VoteButtons (fetchVotes(); fetchUserVote()) and, on the post
\* page, of Comments (fetchComments()), run with the user and token given
RunEffects(page, u, tk, okV, okU) ==
  LET votes == getVotesByBlog(cmsVotes, okV)
      total == SumValues(votes)
      logged == u.kind # "none" /\ tk # ""
      vote == IF logged THEN getUserVote(cmsVotes, u.id, okU) ELSE userVote
  IN /\ score' = total
     /\ fetched' = [ran |-> TRUE, okV |-> okV, asked |-> logged, okU |-> logged /\ okU,
                    votes |-> votes,
                    vote |-> IF logged THEN vote ELSE NoVote]
     /\ clicked' = NoClick
     /\ userVote' = vote
     /\ total0' = total
     /\ vote0' = vote.value
     /\ fetchReq' = {fetchVotesReq(tk)}
                    \cup (IF page = "post" THEN {fetchCommentsReq(tk)} ELSE {})

\* the blog list ("home") or a post page ("post") is opened: the components
\* mount with their initial state and run their effects
Mount(page, okV, okU) ==
  /\ mounted = ""
  /\ mounted' = page
  /\ RunEffects(page, user, token, okV, okU)
  /\ UNCHANGED <<cmsVotes, nextVoteId, cmsShape>>
  /\ UNCHANGED authVars

\* navigation away: the components unmount
Unmount ==
  /\ mounted # ""
  /\ mounted' = ""
  /\ score' = 0
  /\ userVote' = NoVote
  /\ total0' = 0
  /\ vote0' = 0
  /\ fetchReq' = {}
  /\ fetched' = NoFetch
  /\ clicked' = NoClick
  /\ UNCHANGED <<cmsVotes, nextVoteId, cmsShape>>
  /\ UNCHANGED authVars

voteRequestUnguarded(u, tk, uv, value) ==
  IF uv # NoVote /\ uv.value = value THEN "deleteVote"
  ELSE IF uv # NoVote THEN "updateVote"
  ELSE "castVote"

\* VoteButtons.handleVote: the request a click sends, "none" when the user
\* or the token is missing
voteRequest(u, tk, uv, value) ==
  IF u.kind = "none" \/ tk = "" THEN "none"
  ELSE IF uv # NoVote /\ uv.value = value THEN "deleteVote"
  ELSE IF uv # NoVote THEN "updateVote"
  ELSE "castVote"

\* VoteButtons.handleVote(value); ok: the CMS carries the request out (a
\* delete or update of a vote the CMS no longer holds fails)
handleVote(value, ok) ==
  /\ mounted # ""
  /\ LET req == voteRequest(user, token, userVote, value)
         held0 == \E r \in cmsVotes : r.id = userVote.id
         done == CASE req = "none" -> FALSE
                   [] req = "castVote" -> ok /\ nextVoteId <= MaxVoteId
                   [] OTHER -> ok /\ held0
         newVote == normalizeVote(wire(VoteRec(nextVoteId, 0, value), cmsShape))
         updated == normalizeVote(wire(VoteRec(userVote.id, 0, value), cmsShape))
     IN /\ cmsVotes' = IF ~done THEN cmsVotes
                       ELSE IF req = "deleteVote" THEN deleteVote(cmsVotes, userVote.id)
                       ELSE IF req = "updateVote" THEN updateVote(cmsVotes, userVote.id, value)
                       ELSE castVote(cmsVotes, nextVoteId, value)
        /\ nextVoteId' = IF done /\ req = "castVote" THEN nextVoteId + 1 ELSE nextVoteId
        /\ userVote' = IF ~done THEN userVote
                       ELSE IF req = "deleteVote" THEN NoVote
                       ELSE IF req = "updateVote" THEN [userVote EXCEPT !.value = value]
                       ELSE [id |-> newVote.id, value |-> value]
        /\ score' = IF ~done THEN score
                    ELSE IF req = "deleteVote" THEN scoreAfterRemove(score, value)
                    ELSE IF req = "updateVote"
                      THEN scoreAfterChange(score, userVote.value, value)
                    ELSE scoreAfterNew(score, value)
        /\ clicked' = [kind |-> "click", value |-> value,
                       logged |-> user.kind # "none" /\ token # "",
                       req |-> req, done |-> done,
                       returned |-> IF done /\ req = "castVote" THEN newVote
                                    ELSE IF done /\ req = "updateVote" THEN updated
                                    ELSE NoVote,
                       scoreBefore |-> score, voteBefore |-> userVote,
                       toast |-> IF req = "none" THEN "Login to vote"
                                 ELSE IF ~done THEN "Failed to vote" ELSE ""]
  /\ UNCHANGED <<mounted, total0, vote0, fetchReq, cmsShape, fetched>>
  /\ UNCHANGED authVars

\* another visitor's vote reaches the CMS
OtherVote(value) ==
  /\ nextVoteId <= MaxVoteId
  /\ cmsVotes' = cmsVotes \cup {VoteRec(nextVoteId, 2, value)}
  /\ nextVoteId' = nextVoteId + 1
  /\ UNCHANGED <<mounted, score, userVote, total0, vote0, fetchReq, cmsShape, fetched, clicked>>
  /\ UNCHANGED authVars

\* the effects run again when setUser / setToken gave user or token a new
\* value while mounted (the callbacks depend on them: a successful answer
\* brings a fresh user object, a logout of nobody changes nothing);
\* otherwise the component state stays
EffectsOnAuthChange(okV, okU) ==
  /\ IF /\ mounted # ""
        /\ lastOp'.res.status = 200
        /\ ~(user = NoUser /\ user' = NoUser /\ token = "" /\ token' = "")
       THEN RunEffects(mounted, user', token', okV, okU)
       ELSE UNCHANGED <<score, userVote, total0, vote0, fetchReq, fetched, clicked>>
  /\ UNCHANGED <<cmsVotes, nextVoteId, mounted, cmsShape>>


\* the CMS answers used where the role and the failure modes do not matter
PlainMe == [t |-> "ok", status |-> 200,
            user |-> CmsUser(FlatRole("Authenticated", "authenticated"))]
PlainAuth(j) == [t |-> "ok", status |-> 200, msg |-> FALSE, jwt |-> j]

\* a reload while the list or a post is shown: everything starts afresh
VoteReload ==
  /\ PageLoad
  /\ mounted' = ""
  /\ score' = 0
  /\ userVote' = NoVote
  /\ total0' = 0
  /\ vote0' = 0
  /\ fetchReq' = {}
  /\ fetched' = NoFetch
  /\ clicked' = NoClick
  /\ UNCHANGED <<cmsVotes, nextVoteId, cmsShape>>

\* the session restore finishes, possibly after the components mounted
VoteRestore(okV, okU) ==
  /\ RestoreSession("me", IF cookie # "" THEN PlainMe ELSE NoMe, TRUE)
  /\ EffectsOnAuthChange(okV, okU)

\* login happens on /login, where no VoteButtons is mounted
VoteLogin(j) ==
  /\ mounted = ""
  /\ Login("login", PlainAuth(j), PlainMe, TRUE)
  /\ UNCHANGED voteVars

\* logout from the navbar, above the mounted components
VoteLogout(okV, okU) ==
  /\ Logout(TRUE)
  /\ EffectsOnAuthChange(okV, okU)

VoteInit ==
  /\ AuthInit
  /\ VoteIdle
  /\ cmsVotes \in InitVoteStores
  /\ nextVoteId = Cardinality(cmsVotes) + 1
  /\ cmsShape \in {"flat", "attributes"}

\* C1: for a logged-in user the displayed score is the total fetched by the
\* mount effect, minus the value of the user's vote fetched then (0 if none),
\* plus the value of the user's current vote (0 if none).
C1_ScoreArithmetic ==
  (mounted # "" /\ user.kind # "none" /\ token # "") =>
    score = total0 - vote0 + userVote.value

C1_Witness ==
  /\ mounted # ""
  /\ user.kind # "none"
  /\ token # ""
  /\ vote0 = -1
  /\ userVote.value = 1
  /\ score = total0 + 2

\* C2: every request that lists a blog's votes or comments while AuthContext
\* holds a token carries that token in its Authorization header.
C2_ListRequestsCarryToken ==
  \A r \in fetchReq : r.ctx # "" => r.auth = r.ctx


\* C13: a vote created by castVote for the logged-in user is the vote that
\* getUserVote returns when VoteButtons is mounted again, so that the user
\* has at most one vote on the blog: after a mount effect whose user vote
\* request succeeded, every vote the app created is the fetched user vote,
\* and a click creates a vote only when the user has no other vote.
C13_OwnVoteFoundOnRemount ==
  /\ (mounted # "" /\ fetched.okU /\ clicked = NoClick) =>
       \A r \in cmsVotes : r.owner = 0 => fetched.vote.id = r.id
  /\ (mounted # "" /\ fetched.okU /\ clicked.done /\ clicked.req = "castVote") =>
       ~ \E r \in cmsVotes : r.owner \in {0, 1} /\ r.id # userVote.id

\* C14: a click without user or token sends no request and leaves score
\* and userVote as they were (toast "Login to vote"); a click whose
\* castVote, updateVote or deleteVote request fails leaves score and
\* userVote as they were (toast "Failed to vote").
C14_FailedClickChangesNothing ==
  clicked.kind = "click" =>
    /\ ~clicked.logged => clicked.req = "none"
    /\ clicked.req = "none" =>
         /\ score = clicked.scoreBefore
         /\ userVote = clicked.voteBefore
         /\ clicked.toast = "Login to vote"
    /\ (clicked.req # "none" /\ ~clicked.done) =>
         /\ score = clicked.scoreBefore
         /\ userVote = clicked.voteBefore
         /\ clicked.toast = "Failed to vote"

\* a logged-in user's click to change an existing vote was refused
C14_Witness ==
  /\ clicked.kind = "click"
  /\ clicked.logged
  /\ clicked.req = "updateVote"
  /\ ~clicked.done
  /\ userVote # NoVote
  /\ score = clicked.scoreBefore

\* C15: every vote returned by getVotesByBlog, getUserVote, castVote and
\* updateVote has value 1 or -1, in either shape and whatever value the CMS
\* holds; the score set by the mount effect is the sum of the returned
\* values, at most the number of votes returned in absolute value, and 0
\* when the votes request failed.
C15_NormalizedVotes ==
  /\ \A v \in fetched.votes : v.value \in {1, -1}
  /\ fetched.vote # NoVote => fetched.vote.value \in {1, -1}
  /\ clicked.returned # NoVote => clicked.returned.value \in {1, -1}
  /\ fetched.ran =>
       /\ total0 = SumValues(fetched.votes)
       /\ total0 <= Cardinality(fetched.votes)
       /\ -total0 <= Cardinality(fetched.votes)
  /\ (fetched.ran /\ ~fetched.okV) => total0 = 0
  /\ (fetched.ran /\ clicked = NoClick) => score = total0

\* the effect fetched, in the attributes shape, a vote whose stored value is
\* neither 1 nor -1
C15_Witness ==
  /\ mounted # ""
  /\ cmsShape = "attributes"
  /\ fetched.okV
  /\ clicked = NoClick
  /\ \E r \in cmsVotes : r.value \notin {1, -1} /\ \E v \in fetched.votes : v.id = r.id

(***************************************************************************)
(* Strings (sequences of characters)                                       *)
(***************************************************************************)

NL == "\n"
LowerChars == {"a", "b", "d", "n", "u", "l"}
DigitChars == {"1", "2", "4", "5"}
Whitespace == {" ", NL}

\* null / undefined where a string is expected
Null == <<"NULL">>
NullText == <<"n", "u", "l", "l">>

\* `${value}` in a template literal
Template(s) == IF s = Null THEN NullText ELSE s

\* /^[a-z0-9]+$/.test(s)
IsLowerAlnum(s) == Len(s) > 0 /\ \A i \in 1..Len(s) : s[i] \in LowerChars \cup DigitChars
\* /^\d+$/.test(s)
AllDigits(s) == Len(s) > 0 /\ \A i \in 1..Len(s) : s[i] \in DigitChars

DigitVal(c) == CASE c = "1" -> 1 [] c = "2" -> 2 [] c = "4" -> 4 [] c = "5" -> 5 [] OTHER -> 0
RECURSIVE ParseInt(_)
\* the number an all-digit string denotes
ParseInt(s) ==
  IF Len(s) = 0 THEN 0
  ELSE 10 * ParseInt(SubSeq(s, 1, Len(s) - 1)) + DigitVal(s[Len(s)])

RECURSIVE trimStart(_)
trimStart(s) ==
  IF Len(s) > 0 /\ s[1] \in Whitespace THEN trimStart(Tail(s)) ELSE s
RECURSIVE trimEnd(_)
trimEnd(s) ==
  IF Len(s) > 0 /\ s[Len(s)] \in Whitespace THEN trimEnd(SubSeq(s, 1, Len(s) - 1)) ELSE s
\* String.prototype.trim
trim(s) == trimEnd(trimStart(s))

lowerChar(c) == IF c = "A" THEN "a" ELSE c
\* String.prototype.toLowerCase on character sequences
lowerCase(s) == [i \in 1..Len(s) |-> lowerChar(s[i])]

SlugChar(c) == c \in LowerChars \cup DigitChars \cup {"-"}
RECURSIVE harmonize(_, _)
\* replace(/[^a-z0-9-]+/g, "-"): every run of other characters becomes one "-"
harmonize(s, inRun) ==
  IF Len(s) = 0 THEN <<>>
  ELSE IF SlugChar(s[1]) THEN <<s[1]>> \o harmonize(Tail(s), FALSE)
  ELSE IF inRun THEN harmonize(Tail(s), TRUE)
  ELSE <<"-">> \o harmonize(Tail(s), TRUE)

\* react-slugify on a string: trim, lower-case, harmonize
slugify(s) == harmonize(lowerCase(trim(s)), FALSE)

(***************************************************************************)
(* Posts: the CMS blog store, the list and the single post lookup          *)
(***************************************************************************)

Post(i, d, sl, t) == [id |-> i, documentId |-> d, slug |-> sl, title |-> t]

\* the blog records a store of the model is made of
PostUniverse ==
  { Post(1, <<"d", "1">>, Null, <<"a", " ", "b">>),
    Post(2, <<"d", "2">>, <<"a", "-", "b">>, <<"A">>),
    Post(4, <<"a", "b">>, <<"1", "2">>, <<"n", "u">>),
    Post(5, <<"d", "5">>, Null, Null),
    Post(12, <<"d", "4">>, Null, <<"A", "b">>),
    Post(21, <<"d", "b">>, <<"a", "b">>, <<"A">>) }

\* lib/api.ts normalizePost (flat record): a missing slug is derived from
\* the title
normalizePost(post) ==
  IF (post.slug = Null \/ post.slug = <<>>) /\ ~(post.title = Null \/ post.title = <<>>)
    THEN [post EXCEPT !.slug = slugify(post.title)]
    ELSE post

\* lib/api.ts getAllPosts: the normalized records of the page
getAllPosts(store) == { normalizePost(r) : r \in store }

\* data[0] of a CMS answer (records come ordered by id)
First(rs) == CHOOSE r \in rs : \A q \in rs : r.id <= q.id

Found(r) == [outcome |-> "found", id |-> r.id]
NotFound == [outcome |-> "notfound", id |-> 0]
ServerError == [outcome |-> "error", id |-> 0]

tryDocumentIdAnyAlnum(slugOrId) == IsLowerAlnum(slugOrId)

\* lib/api.ts getPostBySlug: the guards of its three lookups
tryDocumentId(slugOrId) ==
  slugOrId # NullText /\ IsLowerAlnum(slugOrId) /\ ~AllDigits(slugOrId)
trySlugLookup(slugOrId) == slugOrId # NullText /\ ~AllDigits(slugOrId)
tryIdLookup(slugOrId) == AllDigits(slugOrId)

\* lib/api.ts getPostBySlug; okDoc, okSlug, okId: the lookup request succeeds
getPostBySlug(store, slugOrId, okDoc, okSlug, okId) ==
  LET tryDoc == tryDocumentId(slugOrId)
      trySlug == trySlugLookup(slugOrId)
      tryId == tryIdLookup(slugOrId)
      byDoc == { r \in store : r.documentId = slugOrId }
      bySlug == { r \in store : r.slug = slugOrId }
      byId == { r \in store : tryId /\ r.id = ParseInt(slugOrId) }
  IN IF tryDoc /\ ~okDoc THEN ServerError
     ELSE IF tryDoc /\ byDoc # {} THEN Found(First(byDoc))
     ELSE IF trySlug /\ ~okSlug THEN ServerError
     ELSE IF trySlug /\ bySlug # {} THEN Found(First(bySlug))
     ELSE IF tryId /\ ~okId THEN ServerError
     ELSE IF tryId /\ byId # {} THEN Found(First(byId))
     ELSE NotFound

\* lib/api.ts getPostBySlug: the filters of the lookup requests it sends, in
\* order (a request that fails or finds a post is the last one)
getPostBySlugQueries(store, slugOrId, okDoc, okSlug, okId) ==
  LET byDoc == { r \in store : r.documentId = slugOrId }
      bySlug == { r \in store : r.slug = slugOrId }
      first == IF tryDocumentId(slugOrId) THEN <<"documentId">> ELSE <<>>
      endsAtDoc == tryDocumentId(slugOrId) /\ (~okDoc \/ byDoc # {})
      second == IF ~endsAtDoc /\ trySlugLookup(slugOrId) THEN <<"slug">> ELSE <<>>
      endsAtSlug == endsAtDoc \/ (trySlugLookup(slugOrId) /\ (~okSlug \/ bySlug # {}))
      third == IF ~endsAtSlug /\ tryIdLookup(slugOrId) THEN <<"id">> ELSE <<>>
  IN first \o second \o third

rethrowAlwaysServerError(message) == "Server error"
\* lib/api.ts getPostBySlug, its catch block
rethrow(message) == IF message = "Post not found." THEN message ELSE "Server error"

\* the message of the Error getPostBySlug throws for a result, "" when it
\* returns a post; a failed request raises the HTTP client's error
getPostBySlugThrows(result) ==
  IF result.outcome = "found" THEN ""
  ELSE rethrow(IF result.outcome = "error" THEN "Network Error" ELSE "Post not found.")

\* BlogPostPage fetchPost, the error it sets for a thrown message
fetchPostError(message) ==
  IF message = "Post not found." THEN "Post not found."
  ELSE "Error fetching post. Please try again later."

\* BlogPostPage after its effect ran for the route parameter: the lookups
\* sent, the message thrown, and the page's post (its id, 0 for null), error
\* ("" for null) and loading
fetchPost(store, slug, okDoc, okSlug, okId) ==
  LET called == slug # <<>>
      result == IF called THEN getPostBySlug(store, slug, okDoc, okSlug, okId) ELSE NotFound
      message == IF called THEN getPostBySlugThrows(result) ELSE ""
  IN [called |-> called,
      result |-> result,
      queries |-> IF called THEN getPostBySlugQueries(store, slug, okDoc, okSlug, okId)
                  ELSE <<>>,
      oks |-> [documentId |-> okDoc, slug |-> okSlug, id |-> okId],
      thrown |-> message,
      post |-> IF called /\ result.outcome = "found" THEN result.id ELSE 0,
      error |-> IF ~called THEN "Invalid blog post URL."
                ELSE IF message = "" THEN "" ELSE fetchPostError(message),
      loading |-> FALSE]

\* the route parameters a post page is visited with by typing its URL
Identifiers ==
  { <<"d", "1">>, <<"d", "b">>, <<"a", "b">>, <<"a", "-", "b">>, <<"A", "b">>,
    <<"1", "2">>, <<"4">>, NullText, <<>> }

\* the route parameter of a listed post's link: href={`/blogs/${post.slug}`}
postLink(post) == Template(post.slug)

NoPage == [called |-> FALSE, result |-> NotFound, queries |-> <<>>,
           oks |-> [documentId |-> FALSE, slug |-> FALSE, id |-> FALSE],
           thrown |-> "", post |-> 0, error |-> "", loading |-> TRUE]

NotOpened == [kind |-> "none", from |-> 0, documentId |-> <<>>, cmsSlug |-> <<>>,
              param |-> <<>>, result |-> NotFound, page |-> NoPage]

PostIdle == listed = {} /\ opened = NotOpened

\* HomeContent fetchPosts
LoadList(ok) ==
  /\ listed' = IF ok THEN getAllPosts(cmsPosts) ELSE listed
  /\ opened' = NotOpened
  /\ UNCHANGED cmsPosts

\* a click on a listed post's link, then BlogPostPage fetchPost
OpenPost(post, okDoc, okSlug, okId) ==
  /\ post \in listed
  /\ LET rec == CHOOSE r \in cmsPosts : r.id = post.id
     IN opened' = [kind |-> "opened", from |-> post.id, documentId |-> post.documentId,
                   cmsSlug |-> rec.slug, param |-> postLink(post),
                   result |-> getPostBySlug(cmsPosts, postLink(post), okDoc, okSlug, okId),
                   page |-> fetchPost(cmsPosts, postLink(post), okDoc, okSlug, okId)]
  /\ UNCHANGED <<cmsPosts, listed>>

\* /blogs/<slug> is opened by its URL, then BlogPostPage fetchPost
VisitPost(slug, okDoc, okSlug, okId) ==
  /\ opened' = [kind |-> "visited", from |-> 0, documentId |-> <<>>, cmsSlug |-> <<>>,
                param |-> slug,
                result |-> fetchPost(cmsPosts, slug, okDoc, okSlug, okId).result,
                page |-> fetchPost(cmsPosts, slug, okDoc, okSlug, okId)]
  /\ UNCHANGED <<cmsPosts, listed>>

PostInit ==
  /\ cmsPosts \in SUBSET PostUniverse
  /\ PostIdle

\* C4: a listed post whose CMS record has no slug is linked by its documentId
\* and, when the lookups succeed, opening the link finds that same post.
C4_SlugLessRoutesByDocumentId ==
  (opened.kind = "opened" /\ opened.cmsSlug = Null /\ opened.result.outcome # "error") =>
    /\ opened.param = opened.documentId
    /\ opened.result.outcome = "found"
    /\ opened.result.id = opened.from


\* the posts a lookup by one filter answers with
Matches(store, filter, slugOrId) ==
  IF filter = "documentId" THEN { r \in store : r.documentId = slugOrId }
  ELSE IF filter = "slug" THEN { r \in store : r.slug = slugOrId }
  ELSE { r \in store : AllDigits(slugOrId) /\ r.id = ParseInt(slugOrId) }

\* C16: for a lower-case alphanumeric identifier that is not all digits (and
\* not "null") getPostBySlug queries by documentId first and by slug only
\* when that answered with nothing; for any other non-numeric identifier it
\* queries by slug only; for an all-digit identifier by id only; for "null"
\* it sends nothing; a post it returns is the first match of the last query
\* sent, and every earlier query answered with nothing.
C16_LookupOrder ==
  opened.page.called =>
    LET p == opened.param
        q == opened.page.queries
        ok == opened.page.oks
    IN /\ p = NullText => q = <<>>
       /\ AllDigits(p) => q = <<"id">>
       /\ (p # NullText /\ IsLowerAlnum(p) /\ ~AllDigits(p)) =>
            /\ q \in {<<"documentId">>, <<"documentId", "slug">>}
            /\ Len(q) = 2 <=> (ok.documentId /\ Matches(cmsPosts, "documentId", p) = {})
       /\ (p # NullText /\ ~IsLowerAlnum(p) /\ ~AllDigits(p)) => q = <<"slug">>
       /\ opened.page.post # 0 =>
            /\ q # <<>>
            /\ Matches(cmsPosts, q[Len(q)], p) # {}
            /\ opened.page.post = First(Matches(cmsPosts, q[Len(q)], p)).id
            /\ \A i \in 1..(Len(q) - 1) : Matches(cmsPosts, q[i], p) = {}

\* an identifier that is no documentId but a slug: both lookups were sent
\* and the slug lookup found the post
C16_Witness ==
  /\ opened.kind = "visited"
  /\ opened.param = <<"a", "b">>
  /\ opened.page.queries = <<"documentId", "slug">>
  /\ opened.page.post = 21

\* C17: getPostBySlug throws "Post not found." exactly when no lookup it
\* sent failed and none found a post (or none was sent), and "Server error"
\* exactly when a lookup it sent failed; the page then shows "Post not
\* found." or "Error fetching post. Please try again later.", with loading
\* false and no post set.
C17_AbsenceVersusFailure ==
  opened.page.called =>
    LET p == opened.param
        q == opened.page.queries
        ok == opened.page.oks
        failed == \E i \in 1..Len(q) : ~ok[q[i]]
        empty == \A i \in 1..Len(q) : ok[q[i]] /\ Matches(cmsPosts, q[i], p) = {}
    IN /\ opened.page.thrown = "Post not found." <=> empty
       /\ opened.page.thrown = "Server error" <=> failed
       /\ opened.page.thrown = "Post not found." =>
            opened.page.error = "Post not found."
       /\ opened.page.thrown = "Server error" =>
            opened.page.error = "Error fetching post. Please try again later."
       /\ opened.page.thrown # "" => (~opened.page.loading /\ opened.page.post = 0)
       /\ opened.page.thrown = "" => (opened.page.post # 0 /\ opened.page.error = "")

\* the documentId lookup answered with nothing and the slug lookup failed
C17_Witness ==
  /\ opened.kind = "visited"
  /\ opened.page.queries = <<"documentId", "slug">>
  /\ ~opened.page.oks.slug
  /\ opened.page.thrown = "Server error"
  /\ opened.page.error = "Error fetching post. Please try again later."

(***************************************************************************)
(* createPost: plain text to rich-text blocks                              *)
(***************************************************************************)

\* the longest content typed into the editor in the model
MaxLen == 5

\* the characters the editor content is made of
ContentChars == {"a", " ", NL}

RECURSIVE SkipNewlines(_)
SkipNewlines(s) == IF Len(s) > 0 /\ s[1] = NL THEN SkipNewlines(Tail(s)) ELSE s

RECURSIVE SplitParagraphs(_, _)
\* str.split(/\n\n+/): cur is the piece collected so far
SplitParagraphs(s, cur) ==
  IF Len(s) = 0 THEN <<cur>>
  ELSE IF Len(s) >= 2 /\ s[1] = NL /\ s[2] = NL
    THEN <<cur>> \o SplitParagraphs(SkipNewlines(s), <<>>)
  ELSE SplitParagraphs(Tail(s), Append(cur, s[1]))

RECURSIVE SplitLines(_, _)
SplitLines(s, cur) ==
  IF Len(s) = 0 THEN <<cur>>
  ELSE IF s[1] = NL THEN <<cur>> \o SplitLines(Tail(s), <<>>)
  ELSE SplitLines(Tail(s), Append(cur, s[1]))

\* paragraph.replace(/\n/g, " ")
newlinesToSpaces(s) == [i \in 1..Len(s) |-> IF s[i] = NL THEN " " ELSE s[i]]

ParagraphBlock(text) ==
  [type |-> "paragraph", children |-> << [type |-> "text", text |-> text] >>]

\* .filter(Boolean) on the trimmed pieces
NonEmpty(ps) == SelectSeq(ps, LAMBDA q : q # <<>>)

stringToStrapiBlocksPerLine(str) ==
  LET pieces == SplitLines(str, <<>>)
      kept == [i \in 1..Len(pieces) |-> trim(pieces[i])]
  IN [i \in 1..Len(kept) |-> ParagraphBlock(newlinesToSpaces(kept[i]))]

\* lib/api.ts stringToStrapiBlocks
stringToStrapiBlocks(str) ==
  LET pieces == SplitParagraphs(str, <<>>)
      kept == NonEmpty([i \in 1..Len(pieces) |-> trim(pieces[i])])
  IN [i \in 1..Len(kept) |-> ParagraphBlock(newlinesToSpaces(kept[i]))]

NoPayload == [kind |-> "none", src |-> <<>>, content |-> <<>>]

\* lib/api.ts createPost: the content field of the request for string content
createPostContent(content) ==
  [kind |-> "array", src |-> content, content |-> stringToStrapiBlocks(content)]

WriteIdle == draft = <<>> /\ payload = NoPayload

\* the editor's onChange: a character is typed or the last one deleted
EditContent(c) ==
  /\ Len(draft) < MaxLen
  /\ draft' = Append(draft, c)
  /\ UNCHANGED payload

DeleteChar ==
  /\ Len(draft) > 0
  /\ draft' = SubSeq(draft, 1, Len(draft) - 1)
  /\ UNCHANGED payload

\* WritePost.handleSubmit up to the createPost request
SubmitPost ==
  /\ payload' = createPostContent(draft)
  /\ UNCHANGED draft

\* the paragraphs of a text: the maximal runs of non-empty lines, each run
\* joined with single spaces and trimmed, runs of only white space left out
RECURSIVE LineRuns(_, _)
LineRuns(lines, cur) ==
  IF Len(lines) = 0 THEN <<cur>>
  ELSE IF lines[1] = <<>> THEN <<cur>> \o LineRuns(Tail(lines), <<>>)
  ELSE LineRuns(Tail(lines), IF cur = <<>> THEN <<lines[1]>> ELSE Append(cur, lines[1]))

RECURSIVE JoinLines(_)
JoinLines(ls) ==
  IF Len(ls) = 0 THEN <<>>
  ELSE IF Len(ls) = 1 THEN ls[1]
  ELSE ls[1] \o <<" ">> \o JoinLines(Tail(ls))

ParagraphTexts(str) ==
  LET runs == LineRuns(SplitLines(str, <<>>), <<>>)
      texts == [i \in 1..Len(runs) |-> trim(JoinLines(runs[i]))]
  IN SelectSeq(texts, LAMBDA t : t # <<>>)

\* C10: the content field createPost sends for a string is an array holding,
\* in order, one paragraph block per non-blank paragraph of the input, each
\* with exactly one text child whose text is non-empty and has no newline.
C10_ContentBlocks ==
  payload.kind # "none" =>
    /\ payload.kind = "array"
    /\ Len(payload.content) = Len(ParagraphTexts(payload.src))
    /\ \A i \in 1..Len(payload.content) :
         LET b == payload.content[i]
         IN /\ b.type = "paragraph"
            /\ Len(b.children) = 1
            /\ b.children[1].type = "text"
            /\ b.children[1].text # <<>>
            /\ \A k \in 1..Len(b.children[1].text) : b.children[1].text[k] # NL
            /\ b.children[1].text = ParagraphTexts(payload.src)[i]

C10_Witness ==
  /\ payload.kind = "array"
  /\ Len(payload.content) = 2
  /\ Len(payload.src) > 0
  /\ payload.src[1] = NL


(***************************************************************************)
(* /write: the submit flow (createPost, then the cover upload)             *)
(***************************************************************************)

\* postResponse?.id when the answer carries no id
NoId == 0
PostIds == {1, 2}
DocumentIds == {<<>>, <<"d", "1">>}
Titles == {<<>>, <<"a", " ", "b">>}
UndefinedText == <<"u", "n", "d", "e", "f", "i", "n", "e", "d">>

DigitChar(d) ==
  CASE d = 0 -> "0" [] d = 1 -> "1" [] d = 2 -> "2" [] d = 3 -> "3" [] d = 4 -> "4"
    [] d = 5 -> "5" [] d = 6 -> "6" [] d = 7 -> "7" [] d = 8 -> "8" [] OTHER -> "9"
RECURSIVE toString(_)
\* Number.prototype.toString for a natural number
toString(n) ==
  IF n < 10 THEN <<DigitChar(n)>> ELSE toString(n \div 10) \o <<DigitChar(n % 10)>>

\* Answers of POST api/blogs as createPost returns them: it throws, or it
\* returns the created entry, whose id and documentId may be missing.
CreateOutcomes ==
  { [t |-> "throw", id |-> NoId, documentId |-> <<>>] }
  \cup { [t |-> "ok", id |-> i, documentId |-> d] :
           i \in PostIds \cup {NoId}, d \in DocumentIds }

\* lib/api.ts createPost: the request it sends
createPostReq(tk) ==
  [kind |-> "createPost", path |-> "api/blogs", auth |-> tk,
   ref |-> "", refId |-> <<>>, field |-> ""]

\* lib/api.ts uploadImage: the request it sends
uploadImageReq(refId, tk) ==
  [kind |-> "uploadImage", path |-> "api/upload", auth |-> tk,
   ref |-> "api::blog.blog", refId |-> toString(refId), field |-> "cover"]

shouldUploadAnyPost(cover, postId) == postId # NoId
\* handleSubmit: if (coverImage && postId != null)
shouldUpload(cover, postId) == cover /\ postId # NoId

\* handleSubmit: postDocumentId || postSlug || postId, in a template literal
routeParam(postDocumentId, postSlug, postId) ==
  IF postDocumentId # <<>> THEN postDocumentId
  ELSE IF postSlug # <<>> THEN postSlug
  ELSE IF postId # NoId THEN toString(postId)
  ELSE UndefinedText

NoHeld == [cover |-> FALSE, token |-> "", slug |-> <<>>, created |-> "none",
           id |-> NoId, documentId |-> <<>>]

SubmitIdle ==
  /\ title = <<>>
  /\ coverImage = FALSE
  /\ isLoading = FALSE
  /\ writeError = ""
  /\ submitPc = "idle"
  /\ held = NoHeld
  /\ requests = <<>>
  /\ pushed = Null

\* the form of /write is on screen: the guard lets it render and the page
\* has not navigated away
FormShown == WriteRender(loading, user) = "form" /\ pushed = Null

\* the title input's onChange
setTitle(t) ==
  /\ FormShown
  /\ title' = t
  /\ UNCHANGED <<coverImage, isLoading, writeError, submitPc, held, requests, pushed>>

\* WritePost.handleImageChange with a chosen file
handleImageChange ==
  /\ FormShown
  /\ coverImage' = TRUE
  /\ UNCHANGED <<title, isLoading, writeError, submitPc, held, requests, pushed>>

\* WritePost.handleSubmit up to the await of createPost; the button is
\* disabled while isLoading or while title and description are both empty
\* (the description is left empty here)
handleSubmit ==
  /\ FormShown
  /\ ~isLoading
  /\ title # <<>>
  /\ SubmitPost
  /\ isLoading' = TRUE
  /\ writeError' = ""
  /\ held' = [cover |-> coverImage, token |-> token, slug |-> slugify(title),
              created |-> "pending", id |-> NoId, documentId |-> <<>>]
  /\ requests' = <<createPostReq(token)>>
  /\ submitPc' = "createPost"
  /\ UNCHANGED <<title, coverImage, pushed>>

\* handleSubmit from the answer of createPost to the await of uploadImage,
\* or to its end when nothing is uploaded
createPostDone(out) ==
  /\ submitPc = "createPost"
  /\ IF out.t = "throw"
       THEN /\ held' = [held EXCEPT !.created = "failed"]
            /\ writeError' = "Failed to create post. Please try again."
            /\ isLoading' = FALSE
            /\ submitPc' = "idle"
            /\ UNCHANGED <<requests, pushed>>
       ELSE /\ held' = [held EXCEPT !.created = "ok", !.id = out.id,
                                    !.documentId = out.documentId]
            /\ IF shouldUpload(held.cover, out.id)
                 THEN /\ requests' = Append(requests, uploadImageReq(out.id, held.token))
                      /\ submitPc' = "uploadImage"
                      /\ UNCHANGED <<writeError, isLoading, pushed>>
                 ELSE /\ pushed' = routeParam(out.documentId, held.slug, out.id)
                      /\ isLoading' = FALSE
                      /\ submitPc' = "idle"
                      /\ UNCHANGED <<writeError, requests>>
  /\ UNCHANGED <<title, coverImage, draft, payload>>

\* handleSubmit from the answer of uploadImage to its end
uploadImageDone(ok) ==
  /\ submitPc = "uploadImage"
  /\ IF ok
       THEN /\ pushed' = routeParam(held.documentId, held.slug, held.id)
            /\ UNCHANGED writeError
       ELSE /\ writeError' = "Failed to create post. Please try again."
            /\ UNCHANGED pushed
  /\ isLoading' = FALSE
  /\ submitPc' = "idle"
  /\ UNCHANGED <<title, coverImage, held, requests, draft, payload>>

\* /write is opened again after the flow navigated away: a fresh WritePost
OpenWrite ==
  /\ pushed # Null
  /\ title' = <<>>
  /\ coverImage' = FALSE
  /\ isLoading' = FALSE
  /\ writeError' = ""
  /\ submitPc' = "idle"
  /\ held' = NoHeld
  /\ requests' = <<>>
  /\ pushed' = Null
  /\ UNCHANGED <<draft, payload>>

\* the session the page runs under: restored on load, or a login on /login
SubmitRestore(me) == RestoreSession("me", me, TRUE)
SubmitLogin(me) ==
  /\ submitPc = "idle"
  /\ requests = <<>>
  /\ Login("login", PlainAuth("jwt1"), me, TRUE)

\* C11: the cover upload is requested only after createPost succeeded and
\* returned a post id, as the second request of the run, with refId equal to
\* that id, ref api::blog.blog and field cover; when createPost failed, or no
\* cover was selected at the click, the run sends no upload request, and
\* while createPost is awaited only the create request has been sent.
C11_CoverAfterCreate ==
  /\ \A i \in 1..Len(requests) :
       requests[i].kind = "uploadImage" =>
         /\ i = 2
         /\ requests[1].kind = "createPost"
         /\ held.created = "ok"
         /\ held.id # NoId
         /\ ParseInt(requests[i].refId) = held.id
         /\ requests[i].ref = "api::blog.blog"
         /\ requests[i].field = "cover"
         /\ held.cover
  /\ (held.created = "failed" \/ ~held.cover) =>
       \A i \in 1..Len(requests) : requests[i].kind # "uploadImage"
  /\ submitPc = "createPost" => Len(requests) = 1 /\ requests[1].kind = "createPost"

\* a run that created post 2 and is uploading its cover
C11_Witness ==
  /\ submitPc = "uploadImage"
  /\ held.id = 2
  /\ Len(requests) = 2
  /\ requests[2].kind = "uploadImage"
  /\ requests[2].refId = <<"2">>


(***************************************************************************)
(* Comments: the comment form's handleSubmit                               *)
(***************************************************************************)

MaxComments == 2

\* the post whose page shows the component: <Comments blogId={post.id} />
CommentsBlog == 1

\* a comment entry as the CMS lists it (flat); author "" when it has none
CmsComment(i, c, b, a, approved) ==
  [id |-> i, content |-> c, blog |-> b, author |-> a, isApproved |-> approved]

DefaultCommentUser == [id |-> 0, username |-> "User"]

\* normalizeComment on a flat entry: attrs is the entry itself, user is built
\* from the author relation, or is the default user when there is none
normalizeComment(c) ==
  [id |-> c.id, content |-> c.content, blog |-> c.blog,
   user |-> IF c.author # "" THEN [id |-> 1, username |-> c.author]
                              ELSE DefaultCommentUser,
   isApproved |-> c.isApproved]

Map(f(_), s) == [i \in 1..Len(s) |-> f(s[i])]

ForBlog(c) == c.blog = CommentsBlog

\* getCommentsByBlog: the entries filtered by blog, newest first; [] when the
\* request fails
getCommentsByBlog(store, ok) == IF ok THEN SelectSeq(store, ForBlog) ELSE <<>>

\* what fetchComments hands to setComments
fetchedComments(store, ok) == Map(normalizeComment, getCommentsByBlog(store, ok))

\* postComment: POST api/comments { data: { content, blog } } with the token
postCommentReq(c, tk) ==
  [kind |-> "postComment", auth |-> tk, ctx |-> tk, content |-> c, blog |-> CommentsBlog]

\* the entry the CMS creates for that request: no author is sent, and a new
\* comment awaits moderation
created(store, c) == CmsComment(Len(store) + 1, c, CommentsBlog, "", FALSE)

CommentTexts == {<<>>, <<" ">>, <<"a">>, <<"a", " ">>}

InitCommentStores ==
  {<<>>, <<CmsComment(1, <<"a">>, CommentsBlog, "alice", TRUE)>>,
         <<CmsComment(1, <<"a">>, 2, "alice", TRUE)>>}

NoRun == [posted |-> "none", text |-> <<>>, token |-> "", toast |-> ""]

\* a freshly mounted Comments: initial state, the effect is scheduled
CommentMounted ==
  /\ commentText = <<>>
  /\ submitting = FALSE
  /\ comments = <<>>
  /\ fetchError = ""
  /\ effectDue = TRUE
  /\ commentPc = "idle"
  /\ crun = NoRun
  /\ commentLog = <<>>

CommentIdle == cmsComments = <<>> /\ CommentMounted

\* the textarea and the button are rendered
CommentFormShown == ~loading /\ user # NoUser /\ token # ""

\* the textarea's onChange
setContent(t) ==
  /\ CommentFormShown
  /\ commentText' = t
  /\ UNCHANGED <<cmsComments, submitting, comments, fetchError, effectDue,
                 commentPc, crun, commentLog>>

\* the effect on [fetchComments]: fetchComments with the current token
fetchCommentsEffect(ok) ==
  /\ effectDue
  /\ effectDue' = FALSE
  /\ fetchError' = ""
  /\ comments' = fetchedComments(cmsComments, ok)
  /\ UNCHANGED <<cmsComments, commentText, submitting, commentPc, crun, commentLog>>

canSubmitUntrimmed(t, tk) == t # <<>> /\ tk # ""

\* the negation of handleSubmit's first test: !content.trim() || !token
canSubmit(t, tk) == trim(t) # <<>> /\ tk # ""

\* handleSubmit up to the await of postComment, or its early return. The
\* button is disabled while submitting; the tests on content and token are
\* the handler's own.
commentsHandleSubmit ==
  /\ commentPc = "idle"
  /\ IF canSubmit(commentText, token)
       THEN /\ submitting' = TRUE
            /\ crun' = [posted |-> "pending", text |-> commentText, token |-> token,
                        toast |-> ""]
            /\ commentLog' = <<postCommentReq(commentText, token)>>
            /\ commentPc' = "postComment"
       ELSE /\ crun' = [posted |-> "skipped", text |-> commentText, token |-> token,
                        toast |-> ""]
            /\ commentLog' = <<>>
            /\ UNCHANGED <<submitting, commentPc>>
  /\ UNCHANGED <<cmsComments, commentText, comments, fetchError, effectDue>>

\* handleSubmit from the answer of postComment to the await of fetchComments,
\* or through catch and finally to its end
postCommentDone(ok) ==
  /\ commentPc = "postComment"
  /\ ok => Len(cmsComments) < MaxComments
  /\ IF ok
       THEN /\ cmsComments' = <<created(cmsComments, crun.text)>> \o cmsComments
            /\ commentText' = <<>>
            /\ crun' = [crun EXCEPT !.posted = "ok",
                                    !.toast = "Your comment is awaiting moderation"]
            /\ fetchError' = ""
            /\ commentLog' = Append(commentLog, fetchCommentsReq(crun.token))
            /\ commentPc' = "fetchComments"
            /\ UNCHANGED submitting
       ELSE /\ crun' = [crun EXCEPT !.posted = "failed",
                                    !.toast = "Failed to post comment"]
            /\ submitting' = FALSE
            /\ commentPc' = "idle"
            /\ UNCHANGED <<cmsComments, commentText, fetchError, commentLog>>
  /\ UNCHANGED <<comments, effectDue>>

\* handleSubmit from the answer of fetchComments through finally to its end
fetchCommentsDone(ok) ==
  /\ commentPc = "fetchComments"
  /\ comments' = fetchedComments(cmsComments, ok)
  /\ submitting' = FALSE
  /\ commentPc' = "idle"
  /\ UNCHANGED <<cmsComments, commentText, fetchError, effectDue, crun, commentLog>>

\* fetchComments is rebuilt when the token changes, and its effect runs again
tokenEffect ==
  /\ effectDue' = (effectDue \/ token' # token)
  /\ UNCHANGED <<cmsComments, commentText, submitting, comments, fetchError,
                 commentPc, crun, commentLog>>

\* the session the post page runs under: restored on load, ended from the
\* navbar, or started on /login, after which the post page is opened again
CommentRestore(me) == RestoreSession("me", me, TRUE) /\ tokenEffect
CommentLogout == token # "" /\ Logout(TRUE) /\ tokenEffect
CommentLogin(me) ==
  /\ commentPc = "idle"
  /\ token = ""
  /\ ~loading
  /\ Login("login", PlainAuth("jwt1"), me, TRUE)
  /\ commentText' = <<>>
  /\ submitting' = FALSE
  /\ comments' = <<>>
  /\ fetchError' = ""
  /\ effectDue' = TRUE
  /\ commentPc' = "idle"
  /\ crun' = NoRun
  /\ commentLog' = <<>>
  /\ UNCHANGED cmsComments

\* C20: a handleSubmit with empty trimmed content or without a token sends
\* no request and changes nothing; otherwise it sends one postComment with
\* the typed content and the token; submitting is true exactly while the run
\* stands at an await and false after it; when the post succeeds the input is
\* cleared and the list request follows the post as the run's second request;
\* when it fails the typed content and the list are kept and no list request
\* is sent.
C20_CommentSubmit ==
  [][ /\ submitting' = (commentPc' # "idle")
      /\ (commentPc = "idle" /\ crun' # crun /\ crun'.posted # "none") =>
           IF trim(commentText) = <<>> \/ token = ""
             THEN /\ commentLog' = <<>>
                  /\ commentPc' = "idle"
                  /\ UNCHANGED <<cmsComments, commentText, comments>>
             ELSE /\ commentPc' = "postComment"
                  /\ commentLog' = <<postCommentReq(commentText, token)>>
      /\ (commentPc = "postComment" /\ crun'.posted = "ok") =>
           /\ commentText' = <<>>
           /\ commentPc' = "fetchComments"
           /\ commentLog' = <<postCommentReq(crun.text, crun.token),
                              fetchCommentsReq(crun.token)>>
      /\ (commentPc = "postComment" /\ crun'.posted = "failed") =>
           /\ commentText' = commentText
           /\ comments' = comments
           /\ cmsComments' = cmsComments
           /\ commentLog' = commentLog
           /\ Len(commentLog') = 1
           /\ commentPc' = "idle"
      /\ (commentPc = "fetchComments" /\ commentPc' = "idle") =>
           /\ crun.posted = "ok"
           /\ Len(commentLog') = 2
           /\ comments' \in {<<>>, fetchedComments(cmsComments, TRUE)}
    ]_vars

\* a run that posted "a", cleared the input and listed the new comment
C20_Witness ==
  /\ commentPc = "idle"
  /\ ~submitting
  /\ crun.posted = "ok"
  /\ crun.text = <<"a">>
  /\ commentText = <<>>
  /\ Len(commentLog) = 2
  /\ Len(comments) = 2
  /\ comments[1].content = <<"a">>
  /\ ~comments[1].isApproved


(***************************************************************************)
(* Rich text: convertStrapiContentToMarkdown                               *)
(***************************************************************************)

\* the longest content array of the model
MaxBlocks == 2

\* A JavaScript value of a content field.  k is its kind; for an object,
\* type / text / level / children / ordered are the block's properties
\* (text Null, level 0, hasKids FALSE when absent; language, url, alt and
\* src are absent in every block of the model); a string keeps its
\* characters in text, a number its value in level, an array its items in
\* kids.  content is the object's content property: absent, an array (its
\* items in items) or a string.
NoContent == [k |-> "absent", items |-> <<>>]
ArrayContent(items) == [k |-> "array", items |-> items]
StringContent == [k |-> "string", items |-> <<>>]

Value(k, type, text, level, hasKids, kids, ordered) ==
  [k |-> k, type |-> type, text |-> text, level |-> level,
   hasKids |-> hasKids, kids |-> kids, ordered |-> ordered, content |-> NoContent]

Undefined == Value("undefined", "", Null, 0, FALSE, <<>>, FALSE)
JsNull == Value("null", "", Null, 0, FALSE, <<>>, FALSE)
Str(s) == Value("string", "", s, 0, FALSE, <<>>, FALSE)
Num(n) == Value("number", "", Null, n, FALSE, <<>>, FALSE)
Arr(items) == Value("array", "", Null, 0, TRUE, items, FALSE)
Block(type, text, level, kids) == Value("object", type, text, level, TRUE, kids, FALSE)
Leaf(type, text, level) == Value("object", type, text, level, FALSE, <<>>, FALSE)
List(ordered, kids) == Value("object", "list", Null, 0, TRUE, kids, ordered)
\* an object with a content property, such as { type: "doc", content: [...] }
Wrapper(type, c) == [Leaf(type, Null, 0) EXCEPT !.content = c]

\* what a call returned: a string (its characters in s) or undefined
Returned(s) == [k |-> "string", s |-> s]
ReturnedUndefined == [k |-> "undefined", s |-> <<>>]
NotConverted == [k |-> "none", s |-> <<>>]
\* the call threw instead of returning
Threw == [k |-> "throw", s |-> <<>>]

\* the backquote character
Tick == "BACKQUOTE"

RECURSIVE join(_, _)
\* Array.prototype.join on an array of strings
join(strs, sep) ==
  IF Len(strs) = 0 THEN <<>>
  ELSE IF Len(strs) = 1 THEN strs[1]
  ELSE strs[1] \o sep \o join(Tail(strs), sep)

RECURSIVE repeat(_, _)
\* String.prototype.repeat of a one character string, for a count that is
\* not negative (a negative count throws: see convertBlockThrows)
repeat(c, n) == IF n <= 0 THEN <<>> ELSE <<c>> \o repeat(c, n - 1)

\* Math.min
Min(a, b) == IF a < b THEN a ELSE b

RECURSIVE convertBlockToMarkdown(_)
\* lib/strapi-content.ts convertBlockToMarkdown.  A block that is null, not
\* an object, or an array (no type, children or text property) gives "".
convertBlockToMarkdown(block) ==
  LET type == block.type
      children == block.kids
      converted == [i \in 1..Len(children) |-> convertBlockToMarkdown(children[i])]
      joined == join(converted, <<>>)
      itemText(item) ==
        IF item.hasKids
          THEN join([j \in 1..Len(item.kids) |-> convertBlockToMarkdown(item.kids[j])], <<>>)
          ELSE <<>>
      prefix(i) == IF block.ordered THEN toString(i) \o <<".">> ELSE <<"-">>
  IN IF block.k # "object" THEN <<>>
     ELSE IF type = "text" THEN (IF block.text = Null THEN <<>> ELSE block.text)
     ELSE IF type = "paragraph"
       THEN IF block.hasKids
              THEN join(SelectSeq(converted, LAMBDA t : Len(trim(t)) > 0), <<>>)
              ELSE <<>>
     ELSE IF type = "heading" /\ block.level # 0
       THEN IF block.hasKids
              THEN repeat("#", Min(block.level, 6)) \o <<" ">> \o joined
              ELSE <<>>
     ELSE IF type = "list"
       THEN IF block.hasKids
              THEN join([i \in 1..Len(children) |->
                           prefix(i) \o <<" ">> \o itemText(children[i])], <<NL>>)
              ELSE <<>>
     ELSE IF type = "list-item" THEN (IF block.hasKids THEN joined ELSE <<>>)
     ELSE IF type = "code"
       THEN <<Tick, Tick, Tick, NL>> \o (IF block.hasKids THEN joined ELSE <<>>)
              \o <<NL, Tick, Tick, Tick>>
     ELSE IF type = "code-inline"
       THEN <<Tick>> \o (IF block.hasKids THEN joined ELSE <<>>) \o <<Tick>>
     ELSE IF type = "link"
       THEN <<"[">> \o (IF block.hasKids THEN joined ELSE <<>>) \o <<"]", "(", "#", ")">>
     ELSE IF type \in {"bold", "strong"}
       THEN <<"*", "*">> \o (IF block.hasKids THEN joined ELSE <<>>) \o <<"*", "*">>
     ELSE IF type \in {"italic", "emphasis"}
       THEN <<"*">> \o (IF block.hasKids THEN joined ELSE <<>>) \o <<"*">>
     ELSE IF type = "blockquote"
       THEN IF block.hasKids
              THEN LET lines == SplitLines(join(converted, <<NL>>), <<>>)
                   IN join([i \in 1..Len(lines) |-> <<">", " ">> \o lines[i]], <<NL>>)
              ELSE <<>>
     ELSE IF type \in {"hr", "horizontal-rule"} THEN <<"-", "-", "-">>
     ELSE IF type = "image" THEN <<"!", "[", "]", "(", ")">>
     ELSE IF block.hasKids THEN joined
     ELSE IF block.text # Null /\ block.text # <<>> THEN block.text
     ELSE <<>>

RECURSIVE convertBlockThrows(_)
\* convertBlockToMarkdown throws a RangeError: the heading branch evaluates
\* "#".repeat(Math.min(level, 6)) with a negative level, or a child that the
\* block's branch converts throws.  A list converts the children of its
\* items.
convertBlockThrows(block) ==
  LET type == block.type
      anyThrows(bs) == \E i \in 1..Len(bs) : convertBlockThrows(bs[i])
  IN /\ block.k = "object"
     /\ type \notin {"text", "hr", "horizontal-rule", "image"}
     /\ \/ type = "heading" /\ block.level < 0
        \/ /\ block.hasKids
           /\ IF type = "list"
                THEN \E i \in 1..Len(block.kids) :
                       block.kids[i].hasKids /\ anyThrows(block.kids[i].kids)
                ELSE anyThrows(block.kids)

RECURSIVE jsonText(_)
\* the text JSON.stringify produces for a value other than undefined; the
\* property names and the type name are kept as whole tokens
jsonText(v) ==
  LET items == [i \in 1..Len(v.kids) |->
                  IF v.kids[i].k = "undefined" THEN NullText ELSE jsonText(v.kids[i])]
      inner == [i \in 1..Len(v.content.items) |->
                  IF v.content.items[i].k = "undefined" THEN NullText
                  ELSE jsonText(v.content.items[i])]
  IN IF v.k = "null" THEN NullText
     ELSE IF v.k = "string" THEN <<"\"">> \o v.text \o <<"\"">>
     ELSE IF v.k = "number" THEN toString(v.level)
     ELSE IF v.k = "array" THEN <<"[">> \o join(items, <<",">>) \o <<"]">>
     ELSE <<"{">>
          \o join(SelectSeq(
               << IF v.type # "" THEN <<"\"type\":", "\"", v.type, "\"">> ELSE <<>>,
                  IF v.text # Null THEN <<"\"text\":", "\"">> \o v.text \o <<"\"">> ELSE <<>>,
                  IF v.level # 0 THEN <<"\"level\":">> \o toString(v.level) ELSE <<>>,
                  IF v.hasKids
                    THEN <<"\"children\":", "[">> \o join(items, <<",">>) \o <<"]">>
                    ELSE <<>>,
                  IF v.ordered THEN <<"\"ordered\":", "true">> ELSE <<>>,
                  IF v.content.k = "array"
                    THEN <<"\"content\":", "[">> \o join(inner, <<",">>) \o <<"]">>
                    ELSE IF v.content.k = "string" THEN <<"\"content\":", "\"\"">>
                    ELSE <<>> >>,
               LAMBDA f : f # <<>>), <<",">>)
          \o <<"}">>

\* JSON.stringify: undefined for undefined, a string for every other value
JSONstringify(v) == IF v.k = "undefined" THEN ReturnedUndefined ELSE Returned(jsonText(v))

\* lib/strapi-content.ts convertStrapiContentToMarkdown; nothing catches
\* what a block's conversion throws
convertStrapiContentToMarkdown(c) ==
  IF c.k = "string" THEN Returned(c.text)
  ELSE IF c.k = "array" /\ \E i \in 1..Len(c.kids) : convertBlockThrows(c.kids[i])
    THEN Threw
  ELSE IF c.k = "array"
    THEN LET convertedBlocks == [i \in 1..Len(c.kids) |-> convertBlockToMarkdown(c.kids[i])]
             result == join(SelectSeq(convertedBlocks, LAMBDA t : Len(trim(t)) > 0),
                            <<NL, NL>>)
         IN Returned(result)
  ELSE JSONstringify(c)

\* the blocks and other values a content array of the model holds
TextA == Leaf("text", <<"a">>, 0)
TextNodes == { Leaf("text", t, 0) : t \in {<<"a">>, <<" ">>, Null} }
ListItem == Block("list-item", Null, 0, <<TextA>>)
TopBlocks ==
  { Block("paragraph", Null, 0, kids) :
      kids \in {<<>>, <<TextA>>, <<Leaf("text", <<" ">>, 0)>>,
                <<TextA, Leaf("text", Null, 0)>>} }
  \cup { Block("heading", Null, lv, <<TextA>>) : lv \in {0, 1, 6, 7} }
  \cup { List(o, <<ListItem, ListItem>>) : o \in BOOLEAN }
  \cup { Block(t, Null, 0, <<TextA>>) : t \in {"code", "link", "bold", "blockquote"} }
  \cup { Leaf(t, Null, 0) : t \in {"paragraph", "hr", "image", "list"} }
  \cup { Leaf("callout", <<"a">>, 0), Leaf("heading", Null, 2) }
  \cup TextNodes
  \cup { JsNull, Undefined, Num(5), Str(<<"a">>) }

\* the content values a post can carry
ContentInputs ==
  { Str(<<>>), Str(<<"a">>), Str(<<"a", NL, NL, "a">>), JsNull, Undefined,
    Leaf("paragraph", Null, 0), Block("paragraph", Null, 0, <<TextA>>) }
  \cup { Arr(items) : items \in UNION { [1..n -> TopBlocks] : n \in 0..MaxBlocks } }

ConvIdle == postContent = Undefined /\ markdown = NotConverted

\* the content of a fetched post is converted
Convert ==
  /\ markdown = NotConverted
  /\ markdown' = convertStrapiContentToMarkdown(postContent)
  /\ UNCHANGED postContent

\* C12: whatever the content (a string, an array of blocks, a non-array
\* object, null or undefined), convertStrapiContentToMarkdown returns a
\* string, never undefined.
C12_AlwaysString == markdown # NotConverted => markdown.k = "string"


(***************************************************************************)
(* Rich text: BlocksRenderer and the content of the post page              *)
(***************************************************************************)

\* a template literal's text for an integer
numberText(n) == IF n < 0 THEN <<"-">> \o toString(0 - n) ELSE toString(n)

\* level || 1
OrOne(level) == IF level = 0 THEN 1 ELSE level

\* BlockComponent: const headingLevel = Math.min(level || 1, 6)
headingLevel(level) == Min(OrOne(level), 6)

\* getHeadingClass: classes[level] || "text-xl"
getHeadingClass(level) ==
  CASE level = 1 -> "text-4xl" [] level = 2 -> "text-3xl" [] level = 3 -> "text-2xl"
    [] level = 4 -> "text-xl" [] level = 5 -> "text-lg" [] level = 6 -> "text-base"
    [] OTHER -> "text-xl"

\* the opening and closing tag of the element HeadingTag names
HeadingOpen(n) == <<"<", "h">> \o numberText(n) \o <<" ", getHeadingClass(n), ">">>
HeadingClose(n) == <<"<", "/", "h">> \o numberText(n) \o <<">">>

RECURSIVE Flatten(_)
\* the children of an element, in order
Flatten(outs) == IF Len(outs) = 0 THEN <<>> ELSE outs[1] \o Flatten(Tail(outs))

\* the text a code block takes from one child
codeChildText(child) ==
  IF child.k = "object" /\ child.type = "text" /\ child.text # Null THEN child.text ELSE <<>>

RECURSIVE BlockComponent(_)
\* BlockComponent: the markup of one block.  A block that is null, not an
\* object, or an array (no type or children property) renders nothing.
\* List items and the children of code blocks are objects in every block of
\* the model.
BlockComponent(block) ==
  LET type == block.type
      children == block.kids
      content == Flatten([i \in 1..Len(children) |-> BlockComponent(children[i])])
      item(it) ==
        <<"<li>">>
        \o (IF it.hasKids
              THEN Flatten([j \in 1..Len(it.kids) |-> BlockComponent(it.kids[j])])
              ELSE <<>>)
        \o <<"</li>">>
      codeText == Flatten([i \in 1..Len(children) |-> codeChildText(children[i])])
      wrap(tag) == IF block.hasKids THEN <<"<", tag, ">">> \o content \o <<"<", "/", tag, ">">>
                   ELSE <<>>
  IN IF block.k # "object" THEN <<>>
     ELSE IF type = "text" THEN (IF block.text = Null THEN <<>> ELSE block.text)
     ELSE IF type = "paragraph"
       THEN IF block.hasKids THEN <<"<p>">> \o content \o <<"</p>">> ELSE <<"<br/>">>
     ELSE IF type = "heading"
       THEN IF block.hasKids
              THEN HeadingOpen(headingLevel(block.level)) \o content
                   \o HeadingClose(headingLevel(block.level))
              ELSE <<>>
     ELSE IF type = "list"
       THEN IF block.hasKids
              THEN LET ListTag == IF block.ordered THEN "ol" ELSE "ul"
                   IN <<"<", ListTag, ">">>
                      \o Flatten([i \in 1..Len(children) |-> item(children[i])])
                      \o <<"<", "/", ListTag, ">">>
              ELSE <<>>
     ELSE IF type = "list-item" THEN (IF block.hasKids THEN content ELSE <<>>)
     ELSE IF type = "link" THEN wrap("a")
     ELSE IF type \in {"bold", "strong"} THEN wrap("strong")
     ELSE IF type \in {"italic", "emphasis"} THEN wrap("em")
     ELSE IF type \in {"blockquote", "quote"} THEN wrap("blockquote")
     ELSE IF type = "code"
       THEN IF block.hasKids THEN <<"<pre>", "<code>">> \o codeText \o <<"</code>", "</pre>">>
            ELSE <<>>
     ELSE IF type \in {"code-inline", "inlineCode"}
       THEN IF block.hasKids THEN <<"<code>">> \o codeText \o <<"</code>">> ELSE <<>>
     ELSE IF type = "image" THEN <<"<img/>">>
     ELSE IF type \in {"hr", "horizontal-rule"} THEN <<"<hr/>">>
     ELSE IF block.hasKids THEN content
     ELSE <<>>

\* BlocksRenderer: a div over the blocks, or its own notice when blocks is
\* not an array
BlocksRenderer(blocks) ==
  IF blocks.k # "array" THEN <<"<div>", "No content available", "</div>">>
  ELSE <<"<div>">>
       \o Flatten([i \in 1..Len(blocks.kids) |-> BlockComponent(blocks.kids[i])])
       \o <<"</div>">>

normalizeContentKept(rawContent) == rawContent

\* normalizePost: a { type: "doc", content: [...] } wrapper is replaced by
\* its inner array
normalizeContent(rawContent) ==
  IF rawContent.k = "object" /\ rawContent.type = "doc" /\ rawContent.content.k = "array"
    THEN Arr(rawContent.content.items)
    ELSE rawContent

View(view, blocks, out, c) == [view |-> view, blocks |-> blocks, out |-> out, content |-> c]

NotRendered == View("none", Undefined, <<>>, Undefined)

\* BlogPostPage: the element rendered for post.content
BlogPostPageContent(c) ==
  IF c.k \in {"null", "undefined"} \/ (c.k = "string" /\ c.text = <<>>)
    THEN View("No content", Undefined, <<"<div>", "No content", "</div>">>, c)
  ELSE IF c.k = "array" THEN View("blocks", c, BlocksRenderer(c), c)
  ELSE IF c.k = "object" /\ c.type = "doc" /\ c.content.k = "array"
    THEN View("blocks", Arr(c.content.items), BlocksRenderer(Arr(c.content.items)), c)
  ELSE IF c.k = "string" THEN View("text", Undefined, <<"<div>">> \o c.text \o <<"</div>">>, c)
  ELSE View("unsupported", Undefined,
            <<"<div>", "Content format not supported", "</div>">>, c)

RenderIdle == rendered = NotRendered

\* the blocks and the content values the post page is given
HeadingLevels == {-1, 0, 1, 3, 6, 7}
RenderBlocks ==
  { Block("heading", Null, lv, <<TextA>>) : lv \in HeadingLevels }
  \cup { Leaf("heading", Null, 2), Leaf("paragraph", Null, 0),
         Block("paragraph", Null, 0, <<TextA>>), List(TRUE, <<ListItem>>),
         Block("code", Null, 0, <<TextA>>), Leaf("callout", <<"a">>, 0), TextA, JsNull }

RenderInputs ==
  { Str(<<>>), Str(<<"a">>), JsNull, Undefined, Num(5), Leaf("paragraph", Null, 0),
    Wrapper("doc", NoContent), Wrapper("doc", StringContent),
    Wrapper("article", ArrayContent(<<TextA>>)) }
  \cup { Arr(items) : items \in UNION { [1..n -> RenderBlocks] : n \in 0..MaxBlocks } }
  \cup { Wrapper("doc", ArrayContent(items)) :
           items \in UNION { [1..n -> RenderBlocks] : n \in 0..MaxBlocks } }

\* the post page shows a fetched post: getPostBySlug normalizes the entry and
\* the page renders its content
RenderPost ==
  /\ rendered = NotRendered
  /\ rendered' = BlogPostPageContent(normalizeContent(postContent))
  /\ UNCHANGED <<postContent, markdown>>

IsDocWrapper(v) == v.k = "object" /\ v.type = "doc" /\ v.content.k = "array"

\* C21: the post page renders exactly one element for the content, chosen
\* by its shape: "No content" for null, undefined and the empty string, the
\* blocks renderer over the array for an array, the blocks renderer over the
\* inner array for a doc wrapper with an array content, the text for a
\* non-empty string, "Content format not supported" for anything else; and
\* the content the page is given is the inner array for a doc wrapper and
\* the CMS value itself otherwise.
C21_ContentDispatch ==
  rendered # NotRendered =>
    /\ rendered.content = (IF IsDocWrapper(postContent)
                             THEN Arr(postContent.content.items) ELSE postContent)
    /\ rendered.view \in {"No content", "blocks", "text", "unsupported"}
    /\ rendered.view = "No content" <=>
         (postContent.k \in {"null", "undefined"} \/ postContent = Str(<<>>))
    /\ rendered.view = "blocks" <=> (postContent.k = "array" \/ IsDocWrapper(postContent))
    /\ rendered.view = "text" <=> (postContent.k = "string" /\ postContent.text # <<>>)
    /\ rendered.view = "No content" => rendered.out = <<"<div>", "No content", "</div>">>
    /\ rendered.view = "unsupported" =>
         rendered.out = <<"<div>", "Content format not supported", "</div>">>
    /\ rendered.view = "text" => rendered.out = <<"<div>">> \o postContent.text \o <<"</div>">>
    /\ rendered.view = "blocks" =>
         /\ rendered.blocks = (IF postContent.k = "array" THEN postContent
                                ELSE Arr(postContent.content.items))
         /\ rendered.out = BlocksRenderer(rendered.blocks)
         /\ rendered.out[1] = "<div>" /\ rendered.out[2] # "No content available"

\* a doc wrapper around two blocks was unwrapped and rendered by the blocks
\* renderer
C21_Witness ==
  /\ IsDocWrapper(postContent)
  /\ Len(postContent.content.items) = 2
  /\ rendered.view = "blocks"
  /\ rendered.content.k = "array"
  /\ rendered.out = <<"<div>", "<p>", "a", "</p>", "a", "</div>">>


RECURSIVE LeadingHashes(_)
\* the number of "#" characters a text starts with
LeadingHashes(t) ==
  IF Len(t) > 0 /\ t[1] = "#" THEN 1 + LeadingHashes(Tail(t)) ELSE 0

\* C22: for a post whose content is one heading block with children,
\* whatever level the block carries (missing, negative or above 6), the page
\* renders a heading element h1..h6 (h1 for a missing level, h6 for a level
\* above 6), and the markdown conversion returns a text that starts with 1
\* to 6 "#" characters and does not throw.
C22_HeadingLevels ==
  \A lv \in HeadingLevels :
    postContent = Arr(<<Block("heading", Null, lv, <<TextA>>)>>) =>
      /\ rendered # NotRendered =>
           /\ rendered.out[2] = "<" /\ rendered.out[3] = "h"
           /\ rendered.out[4] \in {"1", "2", "3", "4", "5", "6"}
           /\ lv = 0 => rendered.out[4] = "1"
           /\ lv > 6 => rendered.out[4] = "6"
      /\ markdown # NotConverted =>
           /\ markdown.k = "string"
           /\ LeadingHashes(markdown.s) \in 1..6

(***************************************************************************)
(* Specifications                                                          *)
(***************************************************************************)

VoteStoreIdle == cmsVotes = {} /\ nextVoteId = 1 /\ cmsShape = "flat"
PostStoreIdle == cmsPosts = {}

\* the session proxy, the /write guard and the protected pages
InitAuth ==
  /\ AuthInit
  /\ VoteStoreIdle /\ VoteIdle
  /\ PostStoreIdle /\ PostIdle
  /\ WriteIdle
  /\ SubmitIdle
  /\ CommentIdle
  /\ RenderIdle
  /\ ConvIdle

NextAuth ==
  \/ PageLoad /\ UNCHANGED <<voteVars, postVars, writeVars, submitVars, convVars, commentVars, renderVars>>
  \/ /\ \E variant \in {"me", "simple"}, net \in BOOLEAN :
          \E me \in (IF net /\ cookie # "" THEN MeOutcomes(cookie, cmsValid) ELSE {NoMe}) :
            RestoreSession(variant, me, net)
     /\ UNCHANGED <<voteVars, postVars, writeVars, submitVars, convVars, commentVars, renderVars>>
  \/ /\ \E variant \in {"login", "fallback"}, net \in BOOLEAN :
          \E auth \in (IF net THEN AuthOutcomes ELSE {NoAuth}) :
            \E me \in (IF net /\ auth.t = "ok"
                         THEN MeOutcomes(auth.jwt, cmsValid \cup {auth.jwt}) ELSE {NoMe}) :
              Login(variant, auth, me, net)
     /\ UNCHANGED <<voteVars, postVars, writeVars, submitVars, convVars, commentVars, renderVars>>
  \/ /\ \E reg \in RegisterOutcomes, net \in BOOLEAN : Register(reg, net)
     /\ UNCHANGED <<voteVars, postVars, writeVars, submitVars, convVars, commentVars, renderVars>>
  \/ /\ \E net \in BOOLEAN : Logout(net)
     /\ UNCHANGED <<voteVars, postVars, writeVars, submitVars, convVars, commentVars, renderVars>>
  \/ CookieExpire /\ UNCHANGED <<voteVars, postVars, writeVars, submitVars, convVars, commentVars, renderVars>>
  \/ /\ \E t \in Tokens : CmsRevoke(t)
     /\ UNCHANGED <<voteVars, postVars, writeVars, submitVars, convVars, commentVars, renderVars>>
  \/ /\ \E p \in Paths :
          \E me \in (IF matcher(p) /\ cookie # ""
                       THEN MeOutcomes(cookie, cmsValid) ELSE {NoMe}) :
            Navigate(p, me)
     /\ UNCHANGED <<voteVars, postVars, writeVars, submitVars, convVars, commentVars, renderVars>>

SpecAuth == InitAuth /\ [][NextAuth]_vars

\* VoteButtons and Comments under a session
InitVote ==
  /\ VoteInit
  /\ PostStoreIdle /\ PostIdle
  /\ WriteIdle
  /\ SubmitIdle
  /\ CommentIdle
  /\ RenderIdle
  /\ ConvIdle

NextVote ==
  \/ /\ \E page \in {"home", "post"}, okV \in BOOLEAN, okU \in BOOLEAN :
          Mount(page, okV, okU)
     /\ UNCHANGED <<postVars, writeVars, submitVars, convVars, commentVars, renderVars>>
  \/ Unmount /\ UNCHANGED <<postVars, writeVars, submitVars, convVars, commentVars, renderVars>>
  \/ /\ \E value \in {1, -1}, ok \in BOOLEAN : handleVote(value, ok)
     /\ UNCHANGED <<postVars, writeVars, submitVars, convVars, commentVars, renderVars>>
  \/ /\ \E value \in {1, -1} : OtherVote(value)
     /\ UNCHANGED <<postVars, writeVars, submitVars, convVars, commentVars, renderVars>>
  \/ VoteReload /\ UNCHANGED <<postVars, writeVars, submitVars, convVars, commentVars, renderVars>>
  \/ /\ \E okV \in BOOLEAN, okU \in BOOLEAN : VoteRestore(okV, okU)
     /\ UNCHANGED <<postVars, writeVars, submitVars, convVars, commentVars, renderVars>>
  \/ VoteLogin("jwt1") /\ UNCHANGED <<postVars, writeVars, submitVars, convVars, commentVars, renderVars>>
  \/ /\ \E okV \in BOOLEAN, okU \in BOOLEAN : VoteLogout(okV, okU)
     /\ UNCHANGED <<postVars, writeVars, submitVars, convVars, commentVars, renderVars>>

SpecVote == InitVote /\ [][NextVote]_vars

\* the blog list and the post page
InitPost ==
  /\ AuthInit
  /\ VoteStoreIdle /\ VoteIdle
  /\ PostInit
  /\ WriteIdle
  /\ SubmitIdle
  /\ CommentIdle
  /\ RenderIdle
  /\ ConvIdle

NextPost ==
  \/ /\ \E ok \in BOOLEAN : LoadList(ok)
     /\ UNCHANGED <<authVars, voteVars, writeVars, submitVars, convVars, commentVars, renderVars>>
  \/ /\ \E post \in listed, okDoc \in BOOLEAN, okSlug \in BOOLEAN, okId \in BOOLEAN :
          OpenPost(post, okDoc, okSlug, okId)
     /\ UNCHANGED <<authVars, voteVars, writeVars, submitVars, convVars, commentVars, renderVars>>
  \/ /\ \E slug \in Identifiers, okDoc \in BOOLEAN, okSlug \in BOOLEAN, okId \in BOOLEAN :
          VisitPost(slug, okDoc, okSlug, okId)
     /\ UNCHANGED <<authVars, voteVars, writeVars, submitVars, convVars, commentVars, renderVars>>

SpecPost == InitPost /\ [][NextPost]_vars

\* the /write editor and createPost
InitWrite ==
  /\ AuthInit
  /\ VoteStoreIdle /\ VoteIdle
  /\ PostStoreIdle /\ PostIdle
  /\ WriteIdle
  /\ SubmitIdle
  /\ CommentIdle
  /\ RenderIdle
  /\ ConvIdle

NextWrite ==
  \/ /\ \E c \in ContentChars : EditContent(c)
     /\ UNCHANGED <<authVars, voteVars, postVars, submitVars, convVars, commentVars, renderVars>>
  \/ DeleteChar /\ UNCHANGED <<authVars, voteVars, postVars, submitVars, convVars, commentVars, renderVars>>
  \/ SubmitPost /\ UNCHANGED <<authVars, voteVars, postVars, submitVars, convVars, commentVars, renderVars>>

SpecWrite == InitWrite /\ [][NextWrite]_vars

\* the /write submit flow under a session
InitSubmit ==
  /\ AuthInit
  /\ VoteStoreIdle /\ VoteIdle
  /\ PostStoreIdle /\ PostIdle
  /\ WriteIdle
  /\ SubmitIdle
  /\ CommentIdle
  /\ RenderIdle
  /\ ConvIdle

NextSubmit ==
  \/ /\ \E me \in (IF cookie # "" THEN MeOutcomes(cookie, cmsValid) ELSE {NoMe}) :
          SubmitRestore(me)
     /\ UNCHANGED <<voteVars, postVars, writeVars, submitVars, convVars, commentVars, renderVars>>
  \/ /\ \E me \in MeOutcomes("jwt1", {"jwt1"}) : SubmitLogin(me)
     /\ UNCHANGED <<voteVars, postVars, writeVars, submitVars, convVars, commentVars, renderVars>>
  \/ /\ \E t \in Titles : setTitle(t)
     /\ UNCHANGED <<authVars, voteVars, postVars, writeVars, convVars, commentVars, renderVars>>
  \/ handleImageChange /\ UNCHANGED <<authVars, voteVars, postVars, writeVars, convVars, commentVars, renderVars>>
  \/ handleSubmit /\ UNCHANGED <<authVars, voteVars, postVars, convVars, commentVars, renderVars>>
  \/ /\ \E out \in CreateOutcomes : createPostDone(out)
     /\ UNCHANGED <<authVars, voteVars, postVars, convVars, commentVars, renderVars>>
  \/ /\ \E ok \in BOOLEAN : uploadImageDone(ok)
     /\ UNCHANGED <<authVars, voteVars, postVars, convVars, commentVars, renderVars>>
  \/ OpenWrite /\ UNCHANGED <<authVars, voteVars, postVars, convVars, commentVars, renderVars>>

SpecSubmit == InitSubmit /\ [][NextSubmit]_vars

\* the markdown conversion over the content values of the model
InitConvert ==
  /\ AuthInit
  /\ VoteStoreIdle /\ VoteIdle
  /\ PostStoreIdle /\ PostIdle
  /\ WriteIdle
  /\ SubmitIdle
  /\ CommentIdle
  /\ RenderIdle
  /\ postContent \in ContentInputs
  /\ markdown = NotConverted

NextConvert ==
  \/ Convert /\ UNCHANGED <<authVars, voteVars, postVars, writeVars, submitVars, commentVars, renderVars>>

SpecConvert == InitConvert /\ [][NextConvert]_vars

\* the comment form of a post page under a session
InitComment ==
  /\ AuthInit
  /\ VoteStoreIdle /\ VoteIdle
  /\ PostStoreIdle /\ PostIdle
  /\ WriteIdle
  /\ SubmitIdle
  /\ ConvIdle
  /\ cmsComments \in InitCommentStores
  /\ CommentMounted
  /\ RenderIdle

NextComment ==
  \/ /\ \E me \in (IF cookie # "" THEN MeOutcomes(cookie, cmsValid) ELSE {NoMe}) :
          CommentRestore(me)
     /\ UNCHANGED <<voteVars, postVars, writeVars, submitVars, convVars, renderVars>>
  \/ /\ \E me \in MeOutcomes("jwt1", {"jwt1"}) : CommentLogin(me)
     /\ UNCHANGED <<voteVars, postVars, writeVars, submitVars, convVars, renderVars>>
  \/ CommentLogout /\ UNCHANGED <<voteVars, postVars, writeVars, submitVars, convVars, renderVars>>
  \/ /\ \E t \in CommentTexts : setContent(t)
     /\ UNCHANGED <<authVars, voteVars, postVars, writeVars, submitVars, convVars, renderVars>>
  \/ /\ \E ok \in BOOLEAN : fetchCommentsEffect(ok)
     /\ UNCHANGED <<authVars, voteVars, postVars, writeVars, submitVars, convVars, renderVars>>
  \/ commentsHandleSubmit
     /\ UNCHANGED <<authVars, voteVars, postVars, writeVars, submitVars, convVars, renderVars>>
  \/ /\ \E ok \in BOOLEAN : postCommentDone(ok)
     /\ UNCHANGED <<authVars, voteVars, postVars, writeVars, submitVars, convVars, renderVars>>
  \/ /\ \E ok \in BOOLEAN : fetchCommentsDone(ok)
     /\ UNCHANGED <<authVars, voteVars, postVars, writeVars, submitVars, convVars, renderVars>>

SpecComment == InitComment /\ [][NextComment]_vars

\* the post page and the markdown conversion over the content values of the
\* model
InitRender ==
  /\ AuthInit
  /\ VoteStoreIdle /\ VoteIdle
  /\ PostStoreIdle /\ PostIdle
  /\ WriteIdle
  /\ SubmitIdle
  /\ CommentIdle
  /\ postContent \in RenderInputs
  /\ markdown = NotConverted
  /\ RenderIdle

NextRender ==
  \/ RenderPost
     /\ UNCHANGED <<authVars, voteVars, postVars, writeVars, submitVars, commentVars>>
  \/ Convert
     /\ UNCHANGED <<authVars, voteVars, postVars, writeVars, submitVars, commentVars, renderVars>>

SpecRender == InitRender /\ [][NextRender]_vars

====
